---------------------------- MODULE Spec2Model ----------------------------
(***************************************************************************)
(* CarConnectivity data model: the reactive node tree made of Observable,  *)
(* GenericAttribute (leaves) and GenericObject (composites).               *)
(*                                                                         *)
(* The garage tree is                                                      *)
(*        R                       root Object (e.g. the CarConnectivity)   *)
(*        +-- G                   Object      (e.g. the garage)            *)
(*            +-- V               Object      (e.g. a vehicle)             *)
(*            |   +-- a           Attribute                                *)
(*            |   +-- b           Attribute                                *)
(*            +-- c               Attribute                                *)
(*                                                                         *)
(* and the subtree of a GenericDrive is                                    *)
(*        D                       the drive                                *)
(*        +-- range                                                        *)
(*        +-- range_estimated_full    derived from range and level         *)
(*        +-- level                                                        *)
(* (the children type and range_wltp, which no handler of the drive reads  *)
(* or writes, and the nodes above the drive are left out).                 *)
(*                                                                         *)
(* Every handler of the library is one action.  A handler is a pure        *)
(* function from the program state (the record built by World) to the      *)
(* program state; the cascades it runs (enabled setters, notify, observer  *)
(* dispatch) are part of it.  Every observer call is appended to log       *)
(* together with a snapshot of the enabled flags at the moment of the      *)
(* call; the callbacks cb1, cb2, cb3 do nothing else, the callback of the  *)
(* drive recomputes range_estimated_full.                                  *)
(***************************************************************************)
EXTENDS Integers, Sequences, FiniteSets, TLC

VARIABLES
    value,                  \* GenericAttribute.__value
    unit,                   \* GenericAttribute.__unit
    enabled,                \* GenericAttribute.__enabled / GenericObject.__enabled
    last_changed,           \* GenericAttribute.last_changed
    last_changed_local,     \* GenericAttribute.last_changed_local
    last_updated,           \* GenericAttribute.last_updated
    last_updated_local,     \* GenericAttribute.last_updated_local
    now,                    \* the wall clock read by datetime.now()
    observers,              \* Observable.__observers
    delay_notifications,    \* Observable.__delay_notifications
    delayed_flags,          \* Observable.__delayed_flags
    flags_to_notify_on_transaction_end,
    hash_order,             \* iteration order of a Python set of observer entries
    log,                    \* callback invocations made by the last handler
    lastOp,                 \* the last handler called, with its arguments
    observing,              \* observation: whether raised and last_en are kept
    raised,                 \* observation: flags passed to notify since the last flush
    last_en,                \* observation: the later of ENABLED / DISABLED raised since the last flush
    is_changeable,          \* GenericAttribute._is_changeable
    on_set_hooks,           \* GenericAttribute._on_set_hooks
    minimum,                \* FloatAttribute.minimum: <<>> for None, <<m>> for m
    maximum,                \* FloatAttribute.maximum: <<>> for None, <<m>> for m
    hook_log,               \* hook invocations made by the last handler
    tree,                   \* the nodes constructed at run time: __id, __parent, __children
    latest_measured         \* observation: the latest measured time handed to _set_value

vars == <<value, unit, enabled, last_changed, last_changed_local, last_updated,
          last_updated_local, now, observers, delay_notifications, delayed_flags,
          flags_to_notify_on_transaction_end, hash_order, log, lastOp, observing, raised, last_en,
          is_changeable, on_set_hooks, minimum, maximum, hook_log, tree, latest_measured>>

---------------------------------------------------------------------------
(* Bounds *)

MaxTime == 2
MaxObservers == 3
MaxHooks == 2
MaxPath == 3

---------------------------------------------------------------------------
(* The tree *)

GarageObjects == {"R", "G", "V"}
GarageAttrs == {"a", "b", "c"}
GarageNodes == GarageObjects \cup GarageAttrs
DriveAttrs == {"range", "range_estimated_full", "level"}
\* Location: source and, of the attributes that clear() resets, uid and display_name
LocationAttrs == {"source", "uid", "display_name"}
Objects == GarageObjects \cup {"D", "position", "position_location"}
Attrs == GarageAttrs \cup DriveAttrs \cup LocationAttrs
Nodes == Objects \cup Attrs
NoNode == "none"

Parent(n) ==
    CASE n = "R" -> NoNode
      [] n = "G" -> "R"
      [] n = "V" -> "G"
      [] n = "a" -> "V"
      [] n = "b" -> "V"
      [] n = "c" -> "G"
      [] n = "D" -> NoNode
      [] n \in DriveAttrs -> "D"
      [] n = "position" -> NoNode
      [] n = "position_location" -> "position"
      [] n \in LocationAttrs -> "position_location"

Children(n) ==
    CASE n = "R" -> <<"G">>
      [] n = "G" -> <<"V", "c">>
      [] n = "V" -> <<"a", "b">>
      [] n = "D" -> <<"range", "range_estimated_full", "level">>
      [] n = "position" -> <<"position_location">>
      [] n = "position_location" -> <<"source", "uid", "display_name">>
      [] OTHER -> <<>>

---------------------------------------------------------------------------
(* Values, units, time *)

\* Attribute values are numbers; None is the number no attribute of the model ever takes.
NoneVal == -1
Values == {1, 2}
NoneUnit == "NoUnit"
Units == {"KM", "MI"}
NoTime == -1
Times == 0..MaxTime

---------------------------------------------------------------------------
(* Observable.ObserverEvent and Observable.ObserverPriority *)

ALL == {"ENABLED", "DISABLED", "VALUE_CHANGED", "UPDATED", "UPDATED_NEW_MEASUREMENT"}
NONE == {}

INTERNAL_FIRST == 1
INTERNAL_HIGH == 2
USER_HIGH == 3
INTERNAL_MID == 4
USER_MID == 5
INTERNAL_LOW == 6
USER_LOW == 7
INTERNAL_LAST == 8
Priorities == INTERNAL_FIRST..INTERNAL_LAST

Callbacks == {"cb1", "cb2", "cb3"}

\* The integer value of a Flag mask (auto() numbers the members 1, 2, 4, 8, 16).
FlagBit(f) ==
    CASE f = "ENABLED" -> 1
      [] f = "DISABLED" -> 2
      [] f = "VALUE_CHANGED" -> 4
      [] f = "UPDATED" -> 8
      [] f = "UPDATED_NEW_MEASUREMENT" -> 16

RECURSIVE MaskInt(_)
MaskInt(mask) ==
    IF mask = {} THEN 0
    ELSE LET f == CHOOSE x \in mask : TRUE IN FlagBit(f) + MaskInt(mask \ {f})

\* An observer registration: the tuple (observer, flag, priority, on_transaction_end).
Entry(cb, mask, prio, ote) == [cb |-> cb, mask |-> mask, priority |-> prio, ote |-> ote]

---------------------------------------------------------------------------
(* The program state as one record, and its commit to the variables *)

World ==
    [value |-> value, unit |-> unit, enabled |-> enabled,
     last_changed |-> last_changed, last_changed_local |-> last_changed_local,
     last_updated |-> last_updated, last_updated_local |-> last_updated_local,
     now |-> now, observers |-> observers,
     delay_notifications |-> delay_notifications, delayed_flags |-> delayed_flags,
     flags_to_notify_on_transaction_end |-> flags_to_notify_on_transaction_end,
     hash_order |-> hash_order, log |-> <<>>, observing |-> observing,
     raised |-> raised, last_en |-> last_en,
     is_changeable |-> is_changeable, on_set_hooks |-> on_set_hooks,
     minimum |-> minimum, maximum |-> maximum, hook_log |-> <<>>, tree |-> tree,
     latest_measured |-> latest_measured,
     new_value |-> NoneVal, error |-> "none"]

Commit(w) ==
    /\ value' = w.value
    /\ unit' = w.unit
    /\ enabled' = w.enabled
    /\ last_changed' = w.last_changed
    /\ last_changed_local' = w.last_changed_local
    /\ last_updated' = w.last_updated
    /\ last_updated_local' = w.last_updated_local
    /\ now' = w.now
    /\ observers' = w.observers
    /\ delay_notifications' = w.delay_notifications
    /\ delayed_flags' = w.delayed_flags
    /\ flags_to_notify_on_transaction_end' = w.flags_to_notify_on_transaction_end
    /\ hash_order' = w.hash_order
    /\ log' = w.log
    /\ observing' = w.observing
    /\ raised' = w.raised
    /\ last_en' = w.last_en
    /\ is_changeable' = w.is_changeable
    /\ on_set_hooks' = w.on_set_hooks
    /\ minimum' = w.minimum
    /\ maximum' = w.maximum
    /\ hook_log' = w.hook_log
    /\ tree' = w.tree
    /\ latest_measured' = w.latest_measured

---------------------------------------------------------------------------
(* Observable.get_observer_entries and its overrides *)

\* Position of a callback in the iteration order of the set.
RECURSIVE Pos(_, _)
Pos(h, cb) == IF h = <<>> THEN 0 ELSE IF Head(h) = cb THEN 1 ELSE 1 + Pos(Tail(h), cb)

HashKey(h, e) == ((Pos(h, e.cb) * 16 + e.priority) * 32 + MaskInt(e.mask)) * 2 + (IF e.ote THEN 1 ELSE 0)

\* list(observers): the entries of a set in its iteration order.
RECURSIVE SetToList(_, _)
SetToList(S, h) ==
    IF S = {} THEN <<>>
    ELSE LET m == CHOOSE x \in S : \A y \in S : HashKey(h, x) <= HashKey(h, y)
         IN <<m>> \o SetToList(S \ {m}, h)

RemoveAt(s, i) == SubSeq(s, 1, i - 1) \o SubSeq(s, i + 1, Len(s))

\* sorted(observers, key=get_priority): a stable sort of the iteration order.
RECURSIVE SortByPriority(_)
SortByPriority(s) ==
    IF s = <<>> THEN <<>>
    ELSE LET i == CHOOSE k \in 1..Len(s) :
                     /\ \A j \in 1..Len(s) : s[k].priority <= s[j].priority
                     /\ \A j \in 1..(k - 1) : s[j].priority > s[k].priority
         IN <<s[i]>> \o SortByPriority(RemoveAt(s, i))

\* Observable.get_observer_entries(flags, on_transaction_end, False) as a set.
OwnObserverEntries(w, n, flags, ote) ==
    {e \in w.observers[n] : (flags \cap e.mask) # {} /\ e.ote = ote}

\* GenericAttribute / GenericObject.get_observer_entries(..., entries_sorted=False) as a set.
RECURSIVE ObserverEntrySet(_, _, _, _)

\* Mutation: the entries of the parent chain are not collected.
ObserverEntrySetOwnOnly(w, n, flags, ote) == OwnObserverEntries(w, n, flags, ote)

ObserverEntrySet(w, n, flags, ote) ==
    OwnObserverEntries(w, n, flags, ote)
        \cup (IF Parent(n) # NoNode THEN ObserverEntrySet(w, Parent(n), flags, ote) ELSE {})

\* Mutation: the entries are returned in the iteration order of the set.
GetObserverEntriesUnsorted(w, n, flags, ote) ==
    SetToList(ObserverEntrySet(w, n, flags, ote), w.hash_order)

GetObserverEntries(w, n, flags, ote) ==
    SortByPriority(SetToList(ObserverEntrySet(w, n, flags, ote), w.hash_order))

\* Mutation: adding a registration that is present removes it.
AddObserverToggling(w, n, cb, mask, prio, ote) ==
    [w EXCEPT !.observers[n] = IF Entry(cb, mask, prio, ote) \in @
                               THEN @ \ {Entry(cb, mask, prio, ote)}
                               ELSE @ \cup {Entry(cb, mask, prio, ote)}]

\* Observable.add_observer
AddObserver(w, n, cb, mask, prio, ote) ==
    [w EXCEPT !.observers[n] = @ \cup {Entry(cb, mask, prio, ote)}]

\* Observable.remove_observer; the optional flag is <<>> for None and <<mask>> otherwise
NoMask == <<>>
RemoveObserver(w, n, cb, flag) ==
    [w EXCEPT !.observers[n] = {e \in @ : e.cb = cb \/ (flag # NoMask /\ e.mask = flag[1])}]

\* One callback invocation observer(element=self, flags=flags), as the log records it.
Call(e, n, flags, w) ==
    [cb |-> e.cb, mask |-> e.mask, priority |-> e.priority, ote |-> e.ote,
     element |-> n, flags |-> flags, snap |-> w.enabled]

\* The callbacks.  cb1, cb2, cb3 only record their call; the drive's
\* __on_range_or_level_change recomputes range_estimated_full.
OnRangeOrLevelChangeCb == "on_range_or_level_change"

RECURSIVE OnRangeOrLevelChange(_)

\* Callbacks that change the registrations of the element they are called with:
\* add_on_element and add_on_parent register cb3, immediate and deferred, on the
\* element and on its parent; remove_on_element calls element.remove_observer(cb1).
AddCb3(w, n) ==
    AddObserver(AddObserver(w, n, "cb3", ALL, USER_LOW, FALSE), n, "cb3", ALL, USER_LOW, TRUE)

ObserverBody(w, cb, n) ==
    CASE cb = OnRangeOrLevelChangeCb -> OnRangeOrLevelChange(w)
      [] cb = "add_on_element" -> AddCb3(w, n)
      [] cb = "add_on_parent" -> AddCb3(w, Parent(n))
      [] cb = "remove_on_element" -> RemoveObserver(w, n, "cb1", NoMask)
      [] OTHER -> w

Recorded(w, e, n, flags) == [w EXCEPT !.log = Append(@, Call(e, n, flags, w))]

\* observer(element=self, flags=...)
RunObserver(w, e, n, flags) == ObserverBody(Recorded(w, e, n, flags), e.cb, n)

\* notify passes its argument; transaction_end reads self.flags_to_notify_on_transaction_end
\* again for every call
CallFlags(w, n, flags, ote) == IF ote THEN w.flags_to_notify_on_transaction_end[n] ELSE flags

\* for observer in observers: observer(element=self, flags=...)
RECURSIVE CallAll(_, _, _, _, _, _)
CallAll(w, es, i, n, flags, ote) ==
    IF i > Len(es) THEN w
    ELSE CallAll(RunObserver(w, es[i], n, CallFlags(w, n, flags, ote)), es, i + 1, n, flags, ote)

\* Mutation: the list of observers is read again before every call.
RECURSIVE CallAllLive(_, _, _, _, _)
CallAllLive(w, i, n, flags, ote) ==
    IF i > Len(GetObserverEntries(w, n, flags, ote)) THEN w
    ELSE CallAllLive(RunObserver(w, GetObserverEntries(w, n, flags, ote)[i], n,
                                 CallFlags(w, n, flags, ote)),
                     i + 1, n, flags, ote)

DispatchLive(w, n, flags, ote) == CallAllLive(w, 1, n, flags, ote)

\* observers = self.get_observers(...); for observer in observers: ...
Dispatch(w, n, flags, ote) == CallAll(w, GetObserverEntries(w, n, flags, ote), 1, n, flags, ote)

---------------------------------------------------------------------------
(* Observable.notify, transaction_end, delay_notifications *)

\* Observation of a notify call (no program state): the flags raised on the node
\* since its last flush, and which of ENABLED / DISABLED was raised last.
Observe(w, n, flags) ==
    IF ~w.observing THEN w
    ELSE [w EXCEPT !.raised[n] = @ \cup flags,
                   !.last_en[n] = IF flags \cap {"ENABLED", "DISABLED"} # {}
                                  THEN flags \cap {"ENABLED", "DISABLED"} ELSE @]

\* notify, lines 145-150: call the immediate observers, or keep the flags while delayed
DeliverOrDelay(w, n, flags) ==
    IF ~w.delay_notifications[n]
    THEN Dispatch(w, n, flags, FALSE)
    ELSE [w EXCEPT !.delayed_flags[n] = @ \cup flags]

\* Mutation: the pending mask is the plain union.
MergePendingNoCancel(ftn, flags) == ftn \cup flags

\* notify, lines 151-158: only the last of ENABLED / DISABLED stays pending
MergePending(ftn, flags) ==
    (IF "ENABLED" \in flags /\ "DISABLED" \in ftn THEN ftn \ {"DISABLED"}
     ELSE IF "DISABLED" \in flags /\ "ENABLED" \in ftn THEN ftn \ {"ENABLED"}
     ELSE ftn) \cup flags

RecordPending(w, n, flags) ==
    [w EXCEPT !.flags_to_notify_on_transaction_end[n] = MergePending(@, flags)]

Notify(w, n, flags) == Observe(RecordPending(DeliverOrDelay(w, n, flags), n, flags), n, flags)

ClearPending(w, n) ==
    [w EXCEPT !.flags_to_notify_on_transaction_end[n] = NONE, !.raised[n] = {}, !.last_en[n] = {}]

\* Observable.transaction_end
ObservableTransactionEnd(w, n) ==
    IF w.flags_to_notify_on_transaction_end[n] # NONE
    THEN ClearPending(Dispatch(w, n, w.flags_to_notify_on_transaction_end[n], TRUE), n)
    ELSE w

\* GenericObject.transaction_end: the children first, in list order, then the node.
RECURSIVE TransactionEnd(_, _)
RECURSIVE TransactionEndChildren(_, _, _)
TransactionEndChildren(w, n, i) ==
    IF i > Len(Children(n)) THEN w
    ELSE TransactionEndChildren(TransactionEnd(w, Children(n)[i]), n, i + 1)

\* Mutation: the node delivers its own pending mask before its children do.
TransactionEndSelfFirst(w, n) == TransactionEndChildren(ObservableTransactionEnd(w, n), n, 1)

TransactionEnd(w, n) == ObservableTransactionEnd(TransactionEndChildren(w, n, 1), n)

ClearDelayed(w, n) == [w EXCEPT !.delayed_flags[n] = NONE]

\* Mutation: the delayed flags are not cleared after they were notified.
FlushDelayedKeep(w, n) ==
    IF ~w.delay_notifications[n] /\ w.delayed_flags[n] # NONE
    THEN Notify(w, n, w.delayed_flags[n])
    ELSE w

FlushDelayed(w, n) ==
    IF ~w.delay_notifications[n] /\ w.delayed_flags[n] # NONE
    THEN ClearDelayed(Notify(w, n, w.delayed_flags[n]), n)
    ELSE w

\* Observable.delay_notifications (setter)
SetDelayNotifications(w, n, b) == FlushDelayed([w EXCEPT !.delay_notifications[n] = b], n)

---------------------------------------------------------------------------
(* The enabled setters *)

AllChildrenDisabled(w, p) == \A i \in 1..Len(Children(p)) : ~w.enabled[Children(p)[i]]

RECURSIVE AttrSetEnabled(_, _, _)
RECURSIVE ObjSetEnabled(_, _, _)
RECURSIVE DisableChildren(_, _, _)

\* "only notify if the object was (not) enabled before": flip the flag and notify
FlipAndNotify(w, n, b) ==
    IF w.enabled[n] # b
    THEN Notify([w EXCEPT !.enabled[n] = b], n, IF b THEN {"ENABLED"} ELSE {"DISABLED"})
    ELSE w

\* "if the object is being enabled, we need to enable the parent first"
EnableParent(w, n) == IF Parent(n) # NoNode THEN ObjSetEnabled(w, Parent(n), TRUE) ELSE w

\* "Disable parent only if all children are disabled"
DisableParentIfAllDisabled(w, n) ==
    IF Parent(n) # NoNode /\ AllChildrenDisabled(w, Parent(n))
    THEN ObjSetEnabled(w, Parent(n), FALSE)
    ELSE w

\* Mutation: the attribute flips its own flag and notifies before it enables its parent.
AttrSetEnabledSelfFirst(w, a, b) ==
    IF b
    THEN EnableParent(FlipAndNotify(w, a, TRUE), a)
    ELSE DisableParentIfAllDisabled(FlipAndNotify(w, a, FALSE), a)

\* Mutation: the attribute disables its parent without looking at its siblings.
AttrSetEnabledNoSiblingCheck(w, a, b) ==
    IF b
    THEN FlipAndNotify(EnableParent(w, a), a, TRUE)
    ELSE ObjSetEnabled(FlipAndNotify(w, a, FALSE), Parent(a), FALSE)

\* GenericAttribute.enabled (setter)
AttrSetEnabled(w, a, b) ==
    IF b
    THEN FlipAndNotify(EnableParent(w, a), a, TRUE)
    ELSE DisableParentIfAllDisabled(FlipAndNotify(w, a, FALSE), a)

\* child.enabled = False for a child that is enabled
DisableChild(w, c) ==
    IF w.enabled[c]
    THEN (IF c \in Attrs THEN AttrSetEnabled(w, c, FALSE) ELSE ObjSetEnabled(w, c, FALSE))
    ELSE w

\* GenericObject.enabled (setter), the loop over the children
DisableChildren(w, o, i) ==
    IF i > Len(Children(o)) THEN w
    ELSE DisableChildren(DisableChild(w, Children(o)[i]), o, i + 1)

\* Mutation: an Object that is enabled does not enable its parent.
ObjSetEnabledNoCascade(w, o, b) ==
    IF b
    THEN FlipAndNotify(w, o, TRUE)
    ELSE DisableParentIfAllDisabled(FlipAndNotify(DisableChildren(w, o, 1), o, FALSE), o)

\* GenericObject.enabled (setter)
ObjSetEnabled(w, o, b) ==
    IF b
    THEN FlipAndNotify(EnableParent(w, o), o, TRUE)
    ELSE DisableParentIfAllDisabled(FlipAndNotify(DisableChildren(w, o, 1), o, FALSE), o)

SetEnabled(w, n, b) == IF n \in Attrs THEN AttrSetEnabled(w, n, b) ELSE ObjSetEnabled(w, n, b)

---------------------------------------------------------------------------
(* GenericAttribute._set_value *)

\* The value_type of an attribute: the attributes of the drive are FloatAttributes,
\* the attributes of the garage tree have a value_type that is not converted.
ValueType(a) == IF a \in DriveAttrs THEN "float" ELSE "generic"

\* Values handed to an attribute.  A number k stands for the int or float k (which
\* Python compares as equal), StrBase + k for the string that spells k, and BadString
\* for a string that spells no number.
StrBase == 1000
Str(k) == StrBase + k
BadString == StrBase + 999
IsStr(v) == v >= StrBase

\* the outcome of a call that raises
ConversionError == -2

\* GenericAttribute.type_conversion: float(value) for a FloatAttribute, which parses a
\* string and raises ValueError for BadString; the value as it is otherwise.
TypeConversion(a, v) ==
    IF ValueType(a) = "float" /\ IsStr(v)
    THEN (IF v = BadString THEN ConversionError ELSE v - StrBase)
    ELSE v

Converted(a, v) == IF v # NoneVal THEN TypeConversion(a, v) ELSE v

\* the staleness guard
IsStale(w, a, measured) ==
    w.last_updated[a] # NoTime /\ measured # NoTime /\ w.last_updated[a] > measured

\* the conditions of _set_value, all read before the call changes the field they test
IsUpdated(w, a) == w.last_updated_local[a] # w.now
\* Mutation: every measured time counts as a new measurement.
IsNewMeasurementAlways(w, a, measured) == measured # NoTime

IsNewMeasurement(w, a, measured) == measured # NoTime /\ w.last_updated[a] # measured
IsValueChanged(w, a, v) == w.value[a] # v
IsUnitChanged(w, a, u) == u # NoneUnit /\ w.unit[a] # u

SetValueFlags(w, a, v, measured, u) ==
    (IF IsUpdated(w, a) THEN {"UPDATED"} ELSE {})
        \cup (IF IsNewMeasurement(w, a, measured) THEN {"UPDATED_NEW_MEASUREMENT"} ELSE {})
        \cup (IF IsValueChanged(w, a, v) \/ IsUnitChanged(w, a, u) THEN {"VALUE_CHANGED"} ELSE {})

\* lines 342-351
StampUpdated(w, a, measured) ==
    [w EXCEPT !.last_updated_local[a] = w.now,
              !.last_updated[a] = IF IsNewMeasurement(w, a, measured) THEN measured ELSE w.now]

\* lines 352-362
StoreValue(w, a, v, measured) ==
    IF IsValueChanged(w, a, v)
    THEN AttrSetEnabled([w EXCEPT !.value[a] = v,
                                  !.last_changed_local[a] = w.now,
                                  !.last_changed[a] = IF measured # NoTime THEN measured ELSE w.now],
                        a, v # NoneVal)
    ELSE w

\* lines 363-366
StoreUnit(w, a, u) == IF IsUnitChanged(w, a, u) THEN [w EXCEPT !.unit[a] = u] ELSE w

SetValueConverted(w, a, v, measured, u) ==
    IF IsStale(w, a, measured) THEN w
    ELSE Notify(StoreUnit(StoreValue(StampUpdated(w, a, measured), a, v, measured), a, u),
                a, SetValueFlags(w, a, v, measured, u))

\* Mutation: the value is stored as it was handed in.
SetValueUnconverted(w, a, v0, measured, u) == SetValueConverted(w, a, v0, measured, u)

SetValue(w, a, v0, measured, u) ==
    IF Converted(a, v0) = ConversionError THEN w
    ELSE SetValueConverted(w, a, Converted(a, v0), measured, u)

---------------------------------------------------------------------------
(* GenericDrive.__on_range_or_level_change *)

DriveInputsReady(w) ==
    /\ w.enabled["range"] /\ w.enabled["level"]
    /\ w.value["range"] # NoneVal /\ w.value["level"] # NoneVal
    /\ w.value["level"] > 0

\* range.value / level.value * 100; the values of the model make the quotient whole
NewRangeEstimatedFull(w) == (w.value["range"] * 100) \div w.value["level"]

MeasurementTime(w) ==
    IF w.last_updated["range"] # NoTime THEN w.last_updated["range"]
    ELSE IF w.last_updated["level"] # NoTime THEN w.last_updated["level"]
    ELSE w.now

OnRangeOrLevelChange(w) ==
    IF DriveInputsReady(w) /\ w.value["range_estimated_full"] # NewRangeEstimatedFull(w)
    THEN SetValue(w, "range_estimated_full", NewRangeEstimatedFull(w), MeasurementTime(w),
                  w.unit["range"])
    ELSE w

---------------------------------------------------------------------------
(* The public value setter: GenericAttribute.value, FloatAttribute.value, set_value.
   A handler that raises carries the exception in the field error of the world; the
   steps that follow in the handler are skipped.  new_value is the local variable of
   the setter. *)

NoError == "none"
\* a minimum or maximum that is None
NoBound == <<>>
Fail(w, err) == [w EXCEPT !.error = err]
Failed(w) == w.error # NoError

\* the outcome of a hook that raises
HookError == -3

\* Hooks handed to _add_on_set_hook: "keep" returns the value it receives, "negate"
\* returns -value and raises TypeError for None and for a string.
HookNames == {"keep", "negate"}

HookBody(h, v) ==
    IF h = "negate"
    THEN (IF v = NoneVal \/ IsStr(v) THEN HookError ELSE 0 - v)
    ELSE v

HookEntry(h, early) == [hook |-> h, early |-> early]

\* "hook not in self._on_set_hooks": the list holds (hook, early) tuples, which a
\* hook never equals
HookInList(hooks, h) == \E i \in 1..Len(hooks) : <<hooks[i].hook, hooks[i].early>> = <<h>>

AddOnSetHook(w, a, h, early) ==
    IF HookInList(w.on_set_hooks[a], h) THEN w
    ELSE [w EXCEPT !.on_set_hooks[a] = Append(@, HookEntry(h, early))]

HookCalled(w, a, h) ==
    [w EXCEPT !.hook_log = Append(@, [hook |-> h.hook, early |-> h.early, attr |-> a,
                                      arg |-> w.new_value, notified |-> Len(w.log)])]

HookReturned(w, r) == IF r = HookError THEN Fail(w, "TypeError") ELSE [w EXCEPT !.new_value = r]

RunHook(w, a, h) ==
    IF Failed(w) THEN w ELSE HookReturned(HookCalled(w, a, h), HookBody(h.hook, w.new_value))

RunHookIf(w, a, h, early) == IF h.early = early THEN RunHook(w, a, h) ELSE w

RECURSIVE ExecuteOnSetHookFrom(_, _, _, _)
ExecuteOnSetHookFrom(w, a, early, i) ==
    IF i > Len(w.on_set_hooks[a]) THEN w
    ELSE ExecuteOnSetHookFrom(RunHookIf(w, a, w.on_set_hooks[a][i], early), a, early, i + 1)

ExecuteOnSetHook(w, a, early) == ExecuteOnSetHookFrom(w, a, early, 1)

\* "if new_value is not None: new_value = self.type_conversion(new_value)"
Coerce(w, a) ==
    IF Failed(w) THEN w
    ELSE IF Converted(a, w.new_value) = ConversionError THEN Fail(w, "ValueError")
    ELSE [w EXCEPT !.new_value = Converted(a, @)]

\* Mutation: the attribute is taken as changeable.
CheckChangeableAlways(w, a) == w

\* "if self._is_changeable: ... else: raise TypeError"
CheckChangeable(w, a) ==
    IF Failed(w) \/ w.is_changeable[a] THEN w ELSE Fail(w, "TypeError")

\* self._set_value(new_value), which converts the value once more
CommitValue(w, a) ==
    IF Failed(w) THEN w
    ELSE IF Converted(a, w.new_value) = ConversionError THEN Fail(w, "ValueError")
    ELSE SetValue(w, a, w.new_value, NoTime, NoneUnit)

\* GenericAttribute.value (setter)
GenericValueSetter(w, a) ==
    CommitValue(
        ExecuteOnSetHook(
            Coerce(CheckChangeable(ExecuteOnSetHook(w, a, TRUE), a), a),
            a, FALSE),
        a)

BelowMinimum(w, a) == w.minimum[a] # NoBound /\ w.new_value < w.minimum[a][1]
AboveMaximum(w, a) == w.maximum[a] # NoBound /\ w.new_value > w.maximum[a][1]
HasBound(w, a) == w.minimum[a] # NoBound \/ w.maximum[a] # NoBound

\* the comparisons with minimum and maximum; comparing a string with a number
\* raises TypeError
CheckBounds(w, a) ==
    IF Failed(w) \/ w.new_value = NoneVal \/ ~HasBound(w, a) THEN w
    ELSE IF IsStr(w.new_value) THEN Fail(w, "TypeError")
    ELSE IF BelowMinimum(w, a) \/ AboveMaximum(w, a) THEN Fail(w, "ValueError")
    ELSE w

CoerceAndCheck(w, a) == IF w.is_changeable[a] THEN CheckBounds(Coerce(w, a), a) ELSE w

\* FloatAttribute.value (setter); IntegerAttribute and DurationAttribute have the
\* same setter
BoundedValueSetter(w, a) == GenericValueSetter(CoerceAndCheck(w, a), a)

\* the attributes of a drive are FloatAttributes
Bounded(a) == a \in DriveAttrs

ValueSetter(w, a) == IF Bounded(a) THEN BoundedValueSetter(w, a) ELSE GenericValueSetter(w, a)

\* attribute.value = v
AssignValue(w, a, v) == ValueSetter([w EXCEPT !.new_value = v], a)

\* RangeAttribute.convert for miles and kilometres, to whole numbers;
\* GenericAttribute.convert returns the value.  A string times a float raises.
Convert(a, v, from, to) ==
    IF ~Bounded(a) \/ v = NoneVal \/ from = to THEN v
    ELSE IF IsStr(v) THEN ConversionError
    ELSE IF from = "MI" /\ to = "KM" THEN (v * 1609344) \div 1000000
    ELSE IF from = "KM" /\ to = "MI" THEN (v * 1000000) \div 1609344
    ELSE v

\* GenericAttribute.set_value(value, unit)
set_value(w, a, v, u) ==
    IF u # NoneUnit /\ w.unit[a] # NoneUnit
    THEN (IF Convert(a, v, u, w.unit[a]) = ConversionError THEN Fail(w, "TypeError")
          ELSE AssignValue(w, a, Convert(a, v, u, w.unit[a])))
    ELSE AssignValue(w, a, v)

---------------------------------------------------------------------------
(* Conversions between units (attributes.py).  The floats of the conversions are
   fractions <<numerator, denominator>> in lowest terms with a positive denominator;
   the factors are the literals of the source: 1.609344 = 25146/15625,
   3.2808 = 4101/1250, 273.15 = 5463/20, 273.5 = 547/2. *)

Abs(x) == IF x < 0 THEN 0 - x ELSE x

RECURSIVE Gcd(_, _)
Gcd(x, y) == IF y = 0 THEN x ELSE Gcd(y, x % y)

Frac(n, d) ==
    IF n = 0 THEN <<0, 1>>
    ELSE <<(IF d < 0 THEN 0 - n ELSE n) \div Gcd(Abs(n), Abs(d)), Abs(d) \div Gcd(Abs(n), Abs(d))>>

Whole(x) == <<x, 1>>
Plus(p, q) == Frac(p[1] * q[2] + q[1] * p[2], p[2] * q[2])
Minus(p, q) == Plus(p, <<0 - q[1], q[2]>>)
\* the product, with the common factors taken out before multiplying
TimesReduced(p, q) == <<p[1] * q[1], p[2] * q[2]>>
Times2(p, q) == TimesReduced(Frac(p[1], q[2]), Frac(q[1], p[2]))
Over(p, q) == IF q[1] < 0 THEN Times2(p, <<0 - q[2], 0 - q[1]>>) ELSE Times2(p, <<q[2], q[1]>>)

Length == {"KM", "MI", "M", "FT"}
Temperature == {"C", "F", "K"}
Speed == {"KMH", "MPH"}
Power == {"W", "KW"}
Energy == {"WH", "KWH"}

\* RangeAttribute.convert
RangeConvert(v, from, to) ==
    CASE from = to -> v
      [] from = "MI" /\ to = "KM" -> Times2(v, <<25146, 15625>>)
      [] from = "KM" /\ to = "MI" -> Over(v, <<25146, 15625>>)
      [] from = "M" /\ to = "KM" -> Over(v, Whole(1000))
      [] from = "KM" /\ to = "M" -> Times2(v, Whole(1000))
      [] from = "FT" /\ to = "M" -> Over(v, <<4101, 1250>>)
      [] from = "M" /\ to = "FT" -> Times2(v, <<4101, 1250>>)
      [] from = "FT" /\ to = "MI" -> Over(v, Whole(5280))
      [] from = "MI" /\ to = "FT" -> Times2(v, Whole(5280))
      [] OTHER -> v

\* SpeedAttribute.convert
SpeedConvert(v, from, to) ==
    CASE from = "MPH" /\ to = "KMH" -> Times2(v, <<25146, 15625>>)
      [] from = "KMH" /\ to = "MPH" -> Over(v, <<25146, 15625>>)
      [] OTHER -> v

\* PowerAttribute.convert
PowerConvert(v, from, to) ==
    CASE from = "W" /\ to = "KW" -> Over(v, Whole(1000))
      [] from = "KW" /\ to = "W" -> Times2(v, Whole(1000))
      [] OTHER -> v

\* EnergyAttribute.convert
EnergyConvert(v, from, to) ==
    CASE from = "WH" /\ to = "KWH" -> Over(v, Whole(1000))
      [] from = "KWH" /\ to = "WH" -> Times2(v, Whole(1000))
      [] OTHER -> v

\* TemperatureAttribute.convert
TemperatureConvert(v, from, to) ==
    CASE from = to -> v
      [] to = "C" /\ from = "F" -> Times2(Minus(v, Whole(32)), <<5, 9>>)
      [] to = "C" /\ from = "K" -> Minus(v, <<5463, 20>>)
      [] to = "F" /\ from = "C" -> Plus(Times2(v, <<9, 5>>), Whole(32))
      [] to = "F" /\ from = "K" -> Plus(Times2(Minus(v, <<5463, 20>>), <<9, 5>>), Whole(32))
      [] to = "K" /\ from = "C" -> Plus(v, <<5463, 20>>)
      [] to = "K" /\ from = "F" -> Plus(<<547, 2>>, Times2(Minus(v, Whole(32)), <<5, 9>>))
      [] OTHER -> v

Quantities == {Length, Temperature, Speed, Power, Energy}

\* the convert of the attribute class of the unit
UnitConvert(v, from, to) ==
    CASE from \in Length -> RangeConvert(v, from, to)
      [] from \in Temperature -> TemperatureConvert(v, from, to)
      [] from \in Speed -> SpeedConvert(v, from, to)
      [] from \in Power -> PowerConvert(v, from, to)
      [] from \in Energy -> EnergyConvert(v, from, to)

\* RangeAttribute.range_in; <<>> is the value None
NoneFraction == <<>>
FractionOf(v) == IF v = NoneVal THEN NoneFraction ELSE Whole(v)

RangeIn(w, a, to) ==
    IF w.unit[a] = NoneUnit THEN [value |-> NoneFraction, unit |-> NoneUnit, error |-> "ValueError"]
    ELSE IF w.value[a] = NoneVal THEN [value |-> NoneFraction, unit |-> to, error |-> NoError]
    ELSE [value |-> RangeConvert(Whole(w.value[a]), w.unit[a], to), unit |-> to, error |-> NoError]

\* A locale is the pair of its first five characters and the rest; NoLocale is None.
NoLocale == <<>>
miles_locales == {"en_US", "en_GB", "en_LR", "en_MM"}
\* any(locale.startswith(loc) for loc in miles_locales)
StartsWithMilesLocale(locale) == locale[1] \in miles_locales

\* RangeAttribute.in_locale
InLocale(w, a, locale) ==
    IF locale = NoLocale
    THEN [value |-> FractionOf(w.value[a]), unit |-> w.unit[a], error |-> NoError]
    ELSE IF StartsWithMilesLocale(locale) /\ w.unit[a] = "KM" THEN RangeIn(w, a, "MI")
    ELSE IF StartsWithMilesLocale(locale) /\ w.unit[a] = "M" THEN RangeIn(w, a, "FT")
    ELSE RangeIn(w, a, "KM")

---------------------------------------------------------------------------
(* Commands (command_impl.py).  Where commands are assigned, attribute c is a
   ClimatizationStartStopCommand and attribute b a ChargingStartStopCommand; none of
   them lies below a Climatization, so a string without --target-temperature takes
   the defaults 25 and Temperature.C.

   The values handed to a command are numbers above the strings of the attributes:
   a member of the Command enum, a string (the number of a line of CommandLines, its
   words being what strip().split(' ') returns) or a dict with the fields command,
   target_temperature and target_temperature_unit. *)

CommandAttrs == {"b", "c"}
HasTemperatureArguments(a) == a = "c"

\* the members of Command
START == 2001
STOP == 2002
CommandMembers == {START, STOP}
IsMember(v) == v \in CommandMembers

\* the strings; "degC" is the word '°C', the value of Temperature.C, and "C" the
\* word 'C', the name of the member
LineBase == 3000
CommandLines ==
    << <<"start">>,
       <<"stop">>,
       <<"bogus">>,
       <<"start", "--target-temperature", "22", "--target-temperature-unit", "C">>,
       <<"stop", "--target-temperature", "22", "--target-temperature-unit", "F">>,
       <<"start", "--target-temperature", "22", "--target-temperature-unit", "degC">>,
       <<"stop", "--target-temperature", "22", "--target-temperature-unit", "degK">>,
       <<"start", "--target-temperature", "abc">>,
       <<"start", "--target-temperature">>,
       <<"stop", "--foo">>,
       <<"start", "stop">>,
       <<"--target-temperature", "22">> >>
Line(i) == LineBase + i
IsLine(v) == v \in {Line(i) : i \in 1..Len(CommandLines)}
Words(v) == CommandLines[v - LineBase]

\* the dicts: the command field is absent (0), a member (1 START, 2 STOP), one of the
\* strings 'start' (3), 'stop' (4), 'bogus' (5), or the number 42 (6); the
\* temperature is absent (0) or a number; the unit is absent (0) or a member of
\* Temperature (1 C, 2 F, 3 K)
DictBase == 10000
Dict(command, temperature, temperature_unit) ==
    DictBase + command * 1000 + temperature * 10 + temperature_unit
IsDict(v) == v >= DictBase
CommandField(v) == (v - DictBase) \div 1000
TemperatureField(v) == ((v - DictBase) % 1000) \div 10
UnitField(v) == (v - DictBase) % 10
MemberField(m) == m - 2000
IsStringField(c) == c \in 3..5

\* ClimatizationStartStopCommand.Command(word), the lookup of a member by its value;
\* 0 stands for the ValueError of a word that is the value of no member
CommandOf(word) ==
    CASE word = "start" -> MemberField(START)
      [] word = "stop" -> MemberField(STOP)
      [] OTHER -> 0

\* float(word); 0 stands for the ValueError
FloatOf(word) ==
    CASE word = "22" -> 22
      [] word = "30" -> 30
      [] OTHER -> 0

\* Temperature(word), the lookup of a member by its value
TemperatureOf(word) ==
    CASE word = "degC" -> 1
      [] word = "degF" -> 2
      [] word = "degK" -> 3
      [] OTHER -> 0

IsOption(word) == word \in {"--target-temperature", "--target-temperature-unit", "--foo"}
KnownOption(a, word) ==
    HasTemperatureArguments(a) /\ word \in {"--target-temperature", "--target-temperature-unit"}

\* what parse_args has collected; the defaults of the optional arguments
Namespace(a) ==
    [command |-> 0,
     target_temperature |-> IF HasTemperatureArguments(a) THEN 25 ELSE 0,
     target_temperature_unit |-> IF HasTemperatureArguments(a) THEN 1 ELSE 0,
     error |-> FALSE]

ArgumentError(ns) == [ns EXCEPT !.error = TRUE]

\* an optional argument takes the word that follows it
TakeOption(ns, option, word) ==
    IF option = "--target-temperature"
    THEN (IF FloatOf(word) = 0 THEN ArgumentError(ns)
          ELSE [ns EXCEPT !.target_temperature = FloatOf(word)])
    ELSE (IF TemperatureOf(word) = 0 THEN ArgumentError(ns)
          ELSE [ns EXCEPT !.target_temperature_unit = TemperatureOf(word)])

\* the positional argument 'command'; a second positional word is not recognized
TakeCommand(ns, word) ==
    IF ns.command # 0 \/ CommandOf(word) = 0 THEN ArgumentError(ns)
    ELSE [ns EXCEPT !.command = CommandOf(word)]

\* ThrowingArgumentParser.parse_args
RECURSIVE ParseArgsFrom(_, _, _, _)
ParseArgsFrom(a, words, i, ns) ==
    IF ns.error THEN ns
    ELSE IF i > Len(words) THEN (IF ns.command = 0 THEN ArgumentError(ns) ELSE ns)
    ELSE IF ~IsOption(words[i]) THEN ParseArgsFrom(a, words, i + 1, TakeCommand(ns, words[i]))
    ELSE IF ~KnownOption(a, words[i]) \/ i = Len(words) THEN ArgumentError(ns)
    ELSE IF IsOption(words[i + 1]) THEN ArgumentError(ns)
    ELSE ParseArgsFrom(a, words, i + 2, TakeOption(ns, words[i], words[i + 1]))

ParseArgs(a, words) == ParseArgsFrom(a, words, 1, Namespace(a))

\* Mutation: the words that do not parse give the command START.
ParsedLenient(w, a, ns) ==
    [w EXCEPT !.new_value = Dict(IF ns.command = 0 THEN MemberField(START) ELSE ns.command,
                                 ns.target_temperature, ns.target_temperature_unit)]

\* "except argparse.ArgumentError as e: raise SetterError(...)", and the dict built
\* from the arguments
Parsed(w, a, ns) ==
    IF ns.error THEN Fail(w, "SetterError")
    ELSE [w EXCEPT !.new_value = Dict(ns.command, ns.target_temperature,
                                      ns.target_temperature_unit)]

\* "new_value['command'] in Command" for a string: a member of the enum has the
\* string as its value (Python from 3.12 on), or TypeError (Python before 3.12)
EnumContains == {"by value", "TypeError"}

\* the branch for a dict: a command that is a string is looked up in the enum
CheckedDict(w, contains) ==
    IF ~IsStringField(CommandField(w.new_value)) THEN w
    ELSE IF contains = "TypeError" THEN Fail(w, "TypeError")
    ELSE IF CommandField(w.new_value) = 5 THEN Fail(w, "ValueError")
    ELSE [w EXCEPT !.new_value = @ - 2000]

\* the three input shapes
Structured(w, a, contains) ==
    IF Failed(w) THEN w
    ELSE IF IsMember(w.new_value)
         THEN [w EXCEPT !.new_value = Dict(MemberField(w.new_value), 0, 0)]
    ELSE IF IsLine(w.new_value) THEN Parsed(w, a, ParseArgs(a, Words(w.new_value)))
    ELSE IF IsDict(w.new_value) THEN CheckedDict(w, contains)
    ELSE w

\* ClimatizationStartStopCommand.value (setter), ChargingStartStopCommand.value (setter)
CommandValueSetter(w, a, contains) ==
    CommitValue(
        ExecuteOnSetHook(
            CheckChangeable(Structured(ExecuteOnSetHook(w, a, TRUE), a, contains), a),
            a, FALSE),
        a)

\* command.value = v
AssignCommand(w, a, v, contains) == CommandValueSetter([w EXCEPT !.new_value = v], a, contains)

---------------------------------------------------------------------------
(* Construction and re-parenting of nodes at run time.  tree holds, for the nodes
   made so far, the id, the __parent and the __children of each; __children is a
   reference to a list of the heap lists, so that two objects can hold the same list.
   An id is the sequence of its parts, like an address string. *)

TreeObjects == {"o1", "o2", "o3"}
TreeAttrs == {"x1"}
TreeNodes == TreeObjects \cup TreeAttrs

NoTree ==
    [made |-> {},
     id |-> [n \in TreeNodes |-> <<>>],
     parent |-> [n \in TreeNodes |-> NoNode],
     children |-> [n \in TreeObjects |-> n],
     lists |-> [r \in TreeObjects |-> <<>>],
     error |-> "none"]

\* "'/' in object_id"
HasSlash(id) == \E i \in 1..Len(id) : id[i] = "/"

\* node.children of a made object
ChildrenOf(t, p) == t.lists[t.children[p]]

InList(n, list) == \E i \in 1..Len(list) : list[i] = n

\* list.remove(n): the first occurrence is taken out
RECURSIVE WithoutFirst(_, _)
WithoutFirst(list, n) ==
    IF list = <<>> THEN list
    ELSE IF Head(list) = n THEN Tail(list)
    ELSE <<Head(list)>> \o WithoutFirst(Tail(list), n)

\* parent.children.append(n)
AppendChild(t, p, n) == [t EXCEPT !.lists[t.children[p]] = Append(@, n)]

\* "if self.__parent is not None and self in self.__parent.children: remove"
RemoveFromParent(t, n) ==
    IF t.parent[n] # NoNode /\ InList(n, ChildrenOf(t, t.parent[n]))
    THEN [t EXCEPT !.lists[t.children[t.parent[n]]] = WithoutFirst(@, n)]
    ELSE t

\* "self.__parent = parent; parent.children.append(self)", which raises
\* AttributeError for parent None after the assignment
AttachTo(t, n, p) ==
    IF p = NoNode THEN [t EXCEPT !.parent[n] = p, !.error = "AttributeError"]
    ELSE AppendChild([t EXCEPT !.parent[n] = p], p, n)

\* GenericObject.parent / GenericAttribute.parent (setter)
SetParent(t, n, p) == AttachTo(RemoveFromParent(t, n), n, p)

Made(t, n, id, p) == [t EXCEPT !.made = @ \cup {n}, !.id[n] = id, !.parent[n] = p]

\* GenericObject.__init__(object_id, parent)
NewObject(t, n, id, p) ==
    IF HasSlash(id) THEN [t EXCEPT !.error = "ValueError"]
    ELSE IF p = NoNode THEN [Made(t, n, id, p) EXCEPT !.children[n] = n, !.lists[n] = <<>>]
    ELSE [AppendChild(Made(t, n, id, p), p, n) EXCEPT !.children[n] = n, !.lists[n] = <<>>]

\* GenericAttribute.__init__(name, parent)
NewAttribute(t, n, id, p) ==
    IF p = NoNode THEN [t EXCEPT !.error = "ValueError"]
    ELSE AppendChild(Made(t, n, id, p), p, n)

\* the clone takes the id, the children list and the parent of its origin
TakenFrom(t, n, origin) ==
    [Made(t, n, t.id[origin], t.parent[origin]) EXCEPT !.children[n] = t.children[origin]]

\* GenericObject.__init__(parent, origin)
Clone(t, n, origin, p) ==
    IF p = NoNode THEN TakenFrom(t, n, origin) ELSE SetParent(TakenFrom(t, n, origin), n, p)

---------------------------------------------------------------------------
(* get_by_path.  An address string is the sequence of its parts: "/" for a
   separator, any other string for a maximal run of characters between separators. *)

\* the failure sentinel False
FalseSentinel == "False"

\* address_string.lstrip('/')
RECURSIVE LStripSlashes(_)
LStripSlashes(p) == IF p # <<>> /\ Head(p) = "/" THEN LStripSlashes(Tail(p)) ELSE p

\* the position of the first "/" of p at or after i, 0 if there is none
RECURSIVE FirstSlash(_, _)
FirstSlash(p, i) ==
    IF i > Len(p) THEN 0 ELSE IF p[i] = "/" THEN i ELSE FirstSlash(p, i + 1)

\* address_string.partition('/'): what precedes the first separator, what follows it
ChildId(p) == IF FirstSlash(p, 1) = 0 THEN p ELSE SubSeq(p, 1, FirstSlash(p, 1) - 1)
RestOfPath(p) == IF FirstSlash(p, 1) = 0 THEN <<>> ELSE SubSeq(p, FirstSlash(p, 1) + 1, Len(p))

\* the first node of the list whose id is child_id, NoNode if there is none
RECURSIVE MatchingChild(_, _, _)
MatchingChild(list, child_id, i) ==
    IF i > Len(list) THEN NoNode
    ELSE IF <<list[i]>> = child_id THEN list[i]
    ELSE MatchingChild(list, child_id, i + 1)

\* GenericObject.get_root / GenericAttribute.get_root
RECURSIVE GetRoot(_)
GetRoot(n) == IF Parent(n) = NoNode THEN n ELSE GetRoot(Parent(n))

RECURSIVE GetByPath(_, _)

ContinueAt(child, rest) == IF child = NoNode THEN FalseSentinel ELSE GetByPath(child, rest)

\* GenericObject.get_by_path
ObjectGetByPath(n, p) ==
    IF p = <<>> THEN n
    ELSE IF p = <<"..">> /\ Parent(n) # NoNode THEN Parent(n)
    ELSE IF Head(p) = "/" THEN GetByPath(GetRoot(n), LStripSlashes(p))
    ELSE ContinueAt(MatchingChild(Children(n), ChildId(p), 1), RestOfPath(p))

\* "if len(parts) == 1: return child", else the search goes on at the child
FoundOrContinue(child, p) ==
    IF child = NoNode THEN FalseSentinel
    ELSE IF FirstSlash(p, 1) = 0 THEN child
    ELSE GetByPath(child, RestOfPath(p))

\* GenericAttribute.get_by_path: a relative path is looked up among the children of
\* the parent of the attribute
AttributeGetByPath(a, p) ==
    IF p = <<>> THEN a
    ELSE IF p = <<"..">> THEN (IF Parent(a) = NoNode THEN FalseSentinel ELSE Parent(a))
    ELSE IF Head(p) = "/" THEN GetByPath(GetRoot(a), Tail(p))
    ELSE FoundOrContinue(MatchingChild(Children(Parent(a)), ChildId(p), 1), p)

GetByPath(n, p) == IF n \in Attrs THEN AttributeGetByPath(n, p) ELSE ObjectGetByPath(n, p)

\* GenericObject.get_absolute_path / GenericAttribute.get_absolute_path
RECURSIVE GetAbsolutePath(_)
GetAbsolutePath(n) ==
    IF Parent(n) = NoNode THEN <<n>> ELSE GetAbsolutePath(Parent(n)) \o <<"/", n>>

---------------------------------------------------------------------------
(* as_dict.  A dict is a function from its keys; an entry that is None is NoneEntry. *)

EmptyDict == [k \in {} |-> 0]
NoneEntry == [none |-> TRUE]

\* The filter functions handed to as_dict: no filter, one that is true of None, one
\* that is true of every value.  An attribute is left out when its filter is true.
NoFilter == "none"
FilterNames == {NoFilter, "is_none", "always"}
FilterFunction(f, v) == IF f = "is_none" THEN v = NoneVal ELSE f = "always"

\* datetime.isoformat() and GenericUnit.value
IsoFormat(t) == <<"iso", t>>
UnitValue(u) ==
    CASE u = "KM" -> "km"
      [] u = "MI" -> "mi"
      [] OTHER -> "unknown length unit"

WithUpd(w, a, d) ==
    IF w.last_updated[a] # NoTime THEN ("upd" :> IsoFormat(w.last_updated[a])) @@ d ELSE d
WithUni(w, a, d) ==
    IF w.unit[a] # NoneUnit THEN ("uni" :> UnitValue(w.unit[a])) @@ d ELSE d

\* GenericAttribute.as_dict
AttributeAsDict(w, a, f) ==
    IF f = NoFilter \/ ~FilterFunction(f, w.value[a])
    THEN WithUni(w, a, WithUpd(w, a, [val |-> w.value[a]]))
    ELSE NoneEntry

RECURSIVE AsDict(_, _, _)

\* "if child_dict is not None: as_dict[child.id] = child_dict"
PutChild(d, child, child_dict) == IF child_dict = NoneEntry THEN d ELSE (child :> child_dict) @@ d

\* Mutation: the children are projected whether they are enabled or not.
AddChildAlways(w, d, child, f) == PutChild(d, child, AsDict(w, child, f))

\* "if child.enabled: ..."
AddChild(w, d, child, f) == IF w.enabled[child] THEN PutChild(d, child, AsDict(w, child, f)) ELSE d

RECURSIVE AsDictFrom(_, _, _, _, _)
AsDictFrom(w, list, i, f, d) ==
    IF i > Len(list) THEN d ELSE AsDictFrom(w, list, i + 1, f, AddChild(w, d, list[i], f))

\* GenericObject.as_dict
ObjectAsDict(w, n, f) == AsDictFrom(w, Children(n), 1, f, EmptyDict)

AsDict(w, n, f) == IF n \in Attrs THEN AttributeAsDict(w, n, f) ELSE ObjectAsDict(w, n, f)

---------------------------------------------------------------------------
(* The handlers as actions *)

\* What lastOp records of a call: the handler and its arguments.
OpRec(op, n) ==
    [op |-> op, node |-> n, value |-> NoneVal, measured |-> NoTime, unit |-> NoneUnit,
     en |-> FALSE, flags |-> {}, cb |-> "none", proceeded |-> TRUE, raises |-> FALSE,
     error |-> "none", path |-> <<>>, result |-> "none"]

\* _set_value(v, measured=m, unit=u) called when datetime.now() returns t
\* Observation of a _set_value call (no program state): the latest measured time
\* handed to the attribute so far.
ObserveMeasured(w, a, m) ==
    IF w.observing /\ m > w.latest_measured[a] THEN [w EXCEPT !.latest_measured[a] = m] ELSE w

DoSetValue(a, v, m, u, t) ==
    /\ t \in now..(IF now < MaxTime THEN now + 1 ELSE now)
    /\ Commit(ObserveMeasured(SetValue([World EXCEPT !.now = t], a, v, m, u), a, m))
    /\ lastOp' = [OpRec("SetValue", a) EXCEPT !.value = v, !.measured = m, !.unit = u,
                                              !.proceeded = ~IsStale(World, a, m),
                                              !.raises = Converted(a, v) = ConversionError]

DoSetEnabled(n, b) ==
    /\ Commit(SetEnabled(World, n, b))
    /\ lastOp' = [OpRec("SetEnabled", n) EXCEPT !.en = b]

DoNotify(n, flags) ==
    /\ Commit(Notify(World, n, flags))
    /\ lastOp' = [OpRec("Notify", n) EXCEPT !.flags = flags]

DoTransactionEnd(n) ==
    /\ Commit(TransactionEnd(World, n))
    /\ lastOp' = OpRec("TransactionEnd", n)

DoSetDelayNotifications(n, b) ==
    /\ Commit(SetDelayNotifications(World, n, b))
    /\ lastOp' = [OpRec("SetDelayNotifications", n) EXCEPT !.en = b]

RECURSIVE SumOver(_, _)
SumOver(S, w) ==
    IF S = {} THEN 0
    ELSE LET n == CHOOSE x \in S : TRUE IN Cardinality(w.observers[n]) + SumOver(S \ {n}, w)

DoAddObserver(n, cb, mask, prio, ote) ==
    /\ SumOver(Nodes, World) < MaxObservers
    /\ Commit(AddObserver(World, n, cb, mask, prio, ote))
    /\ lastOp' = [OpRec("AddObserver", n) EXCEPT !.cb = cb, !.flags = mask, !.en = ote,
                                                 !.proceeded = Entry(cb, mask, prio, ote) \notin observers[n]]

DoRemoveObserver(n, cb, flag) ==
    /\ Commit(RemoveObserver(World, n, cb, flag))
    /\ lastOp' = [OpRec("RemoveObserver", n) EXCEPT !.cb = cb,
                                                    !.flags = IF flag = NoMask THEN {} ELSE flag[1]]

\* attribute.value = v when datetime.now() returns t
DoAssignValue(a, v, t) ==
    /\ t \in now..(IF now < MaxTime THEN now + 1 ELSE now)
    /\ \E w \in {AssignValue([World EXCEPT !.now = t], a, v)} :
          /\ Commit(w)
          /\ lastOp' = [OpRec("AssignValue", a) EXCEPT
                          !.value = v, !.error = w.error, !.raises = Failed(w)]

\* attribute.set_value(v, u) when datetime.now() returns t
DoPublicSetValue(a, v, u, t) ==
    /\ t \in now..(IF now < MaxTime THEN now + 1 ELSE now)
    /\ \E w \in {set_value([World EXCEPT !.now = t], a, v, u)} :
          /\ Commit(w)
          /\ lastOp' = [OpRec("set_value", a) EXCEPT
                          !.value = v, !.unit = u, !.error = w.error, !.raises = Failed(w)]

\* attribute._add_on_set_hook(h, early_hook=early)
DoAddOnSetHook(a, h, early) ==
    /\ Len(on_set_hooks["c"]) + Len(on_set_hooks["range"]) < MaxHooks
    /\ Commit(AddOnSetHook(World, a, h, early))
    /\ lastOp' = [OpRec("AddOnSetHook", a) EXCEPT !.cb = h, !.en = early]

\* _remove_on_set_hook: the loop walks the list while list.remove takes out the first
\* tuple that equals the one at hand, so the walk goes on one position further in
\* the shortened list
RECURSIVE RemoveOnSetHookFrom(_, _, _)
RemoveOnSetHookFrom(hooks, h, i) ==
    IF i > Len(hooks) THEN hooks
    ELSE IF hooks[i].hook = h THEN RemoveOnSetHookFrom(WithoutFirst(hooks, hooks[i]), h, i + 1)
    ELSE RemoveOnSetHookFrom(hooks, h, i + 1)

RemoveOnSetHook(w, a, h) == [w EXCEPT !.on_set_hooks[a] = RemoveOnSetHookFrom(@, h, 1)]

\* _has_on_set_hook
HasOnSetHook(w, a, h) == \E i \in 1..Len(w.on_set_hooks[a]) : w.on_set_hooks[a][i].hook = h

\* attribute._remove_on_set_hook(h)
DoRemoveOnSetHook(a, h) ==
    /\ Commit(RemoveOnSetHook(World, a, h))
    /\ lastOp' = [OpRec("RemoveOnSetHook", a) EXCEPT !.cb = h]

\* attribute._has_on_set_hook(h)
DoHasOnSetHook(a, h) ==
    /\ Commit(World)
    /\ lastOp' = [OpRec("HasOnSetHook", a) EXCEPT !.cb = h, !.result = HasOnSetHook(World, a, h)]

\* attribute._is_changeable = True
DoSetChangeable(a) ==
    /\ ~is_changeable[a]
    /\ Commit([World EXCEPT !.is_changeable[a] = TRUE])
    /\ lastOp' = OpRec("SetChangeable", a)

\* command.value = v when datetime.now() returns t
DoAssignCommand(a, v, contains, t) ==
    /\ t \in now..(IF now < MaxTime THEN now + 1 ELSE now)
    /\ \E w \in {AssignCommand([World EXCEPT !.now = t], a, v, contains)} :
          /\ Commit(w)
          /\ lastOp' = [OpRec("AssignCommand", a) EXCEPT
                          !.value = v, !.cb = contains, !.error = w.error, !.raises = Failed(w)]

\* convert(x, from, to) of the attribute class of the units; convert(y, to, from) of
\* the value y that the call before returned
DoConvert(x, from, to) ==
    /\ Commit(World)
    /\ lastOp' = [OpRec("convert", NoNode) EXCEPT
                    !.value = x, !.path = <<from, to>>,
                    !.result = UnitConvert(Whole(x), from, to)]

DoConvertBack ==
    /\ lastOp.op = "convert"
    /\ Commit(World)
    /\ lastOp' = [lastOp EXCEPT
                    !.op = "convert back",
                    !.result = UnitConvert(lastOp.result, lastOp.path[2], lastOp.path[1])]

\* range.in_locale(locale)
DoInLocale(locale) ==
    /\ Commit(World)
    /\ lastOp' = [OpRec("in_locale", "range") EXCEPT
                    !.path = locale, !.result = InLocale(World, "range", locale)]

\* n.get_by_path(p)
DoGetByPath(n, p) ==
    /\ Commit(World)
    /\ lastOp' = [OpRec("get_by_path", n) EXCEPT !.path = p, !.result = GetByPath(n, p)]

\* n.get_root().get_by_path(n.get_absolute_path())
DoGetByAbsolutePath(n) ==
    /\ Commit(World)
    /\ lastOp' = [OpRec("get_by_absolute_path", n) EXCEPT
                      !.path = GetAbsolutePath(n),
                      !.result = GetByPath(GetRoot(n), GetAbsolutePath(n))]

\* Location.clear: _set_value(None) on the attributes it names, in the order of the
\* source
ClearedByClear == <<"uid", "display_name">>

RECURSIVE ClearEach(_, _)
ClearEach(w, attrs) ==
    IF attrs = <<>> THEN w
    ELSE ClearEach(SetValue(w, Head(attrs), NoneVal, NoTime, NoneUnit), Tail(attrs))

LocationClear(w) == ClearEach(w, ClearedByClear)

\* position.location.clear()
DoLocationClear ==
    /\ Commit(LocationClear(World))
    /\ lastOp' = OpRec("clear", "position_location")

\* n.as_dict(filter_function=f)
DoAsDict(n, f) ==
    /\ Commit(World)
    /\ lastOp' = [OpRec("as_dict", n) EXCEPT !.cb = f, !.result = AsDict(World, n, f)]

\* a handler of the tree that is handed id and leaves the tree t
TreeOp(op, n, id, t) ==
    /\ Commit([World EXCEPT !.tree = t])
    /\ lastOp' = [OpRec(op, n) EXCEPT !.path = id, !.error = t.error,
                                      !.raises = t.error # "none"]

Cleared(t) == [t EXCEPT !.error = "none"]

\* n = GenericObject(id, p)
DoNewObject(n, id, p) ==
    /\ n \in TreeObjects \ tree.made
    /\ TreeOp("NewObject", n, id, NewObject(Cleared(tree), n, id, p))

\* n = GenericAttribute(id, p)
DoNewAttribute(n, id, p) ==
    /\ n \in TreeAttrs \ tree.made
    /\ TreeOp("NewAttribute", n, id, NewAttribute(Cleared(tree), n, id, p))

\* n.parent = p
DoSetParent(n, p) ==
    /\ n \in tree.made
    /\ TreeOp("SetParent", n, tree.id[n], SetParent(Cleared(tree), n, p))

\* n = GenericObject(parent=p, origin=origin)
DoClone(n, origin, p) ==
    /\ n \in TreeObjects \ tree.made
    /\ origin \in TreeObjects \cap tree.made
    /\ TreeOp("Clone", n, tree.id[origin], Clone(Cleared(tree), n, origin, p))

---------------------------------------------------------------------------
(* Construction: GenericObject.__init__, GenericAttribute.__init__, Observable.__init__ *)

\* GenericAttribute.__init__: not changeable, no hooks; the attributes of a drive are
\* constructed with minimum=0 and without a maximum.
InitSetters(mn, mx) ==
    /\ is_changeable = [a \in Attrs |-> FALSE]
    /\ on_set_hooks = [a \in Attrs |-> <<>>]
    /\ minimum = mn
    /\ maximum = mx
    /\ hook_log = <<>>
    /\ tree = NoTree
    /\ latest_measured = [a \in Attrs |-> NoTime]

NoBounds == [a \in Attrs |-> NoBound]
DriveMinimum == [a \in Attrs |-> IF a \in DriveAttrs THEN <<0>> ELSE NoBound]

InitWith(obs, delay, h, obsv) ==
    /\ InitSetters(DriveMinimum, NoBounds)
    /\ value = [a \in Attrs |-> NoneVal]
    /\ unit = [a \in Attrs |-> NoneUnit]
    /\ enabled = [n \in Nodes |-> FALSE]
    /\ last_changed = [a \in Attrs |-> NoTime]
    /\ last_changed_local = [a \in Attrs |-> NoTime]
    /\ last_updated = [a \in Attrs |-> NoTime]
    /\ last_updated_local = [a \in Attrs |-> NoTime]
    /\ now = 0
    /\ observers = obs
    /\ delay_notifications = delay
    /\ delayed_flags = [n \in Nodes |-> NONE]
    /\ flags_to_notify_on_transaction_end = [n \in Nodes |-> NONE]
    /\ hash_order = h
    /\ log = <<>>
    /\ lastOp = OpRec("Init", NoNode)
    /\ observing = obsv
    /\ raised = [n \in Nodes |-> {}]
    /\ last_en = [n \in Nodes |-> {}]

NoObservers == [n \in Nodes |-> {}]
NoDelay == [n \in Nodes |-> FALSE]

\* A recording observer on the root for every event of the tree.
RecordingObservers == [NoObservers EXCEPT !["R"] = {Entry("cb1", ALL, USER_MID, FALSE)}]

---------------------------------------------------------------------------
(* Spec: values are written to the attributes and the enabled flags of the  *)
(* nodes are assigned, with a recording observer on the root.  All calls    *)
(* read the same clock value.                                               *)

Init == InitWith(RecordingObservers, NoDelay, <<"cb1", "cb2", "cb3">>, FALSE)

SetValueStep == \E a \in GarageAttrs, v \in {1, NoneVal} : DoSetValue(a, v, NoTime, NoneUnit, now)
SetEnabledStep == \E n \in GarageNodes, b \in BOOLEAN : DoSetEnabled(n, b)

Next == SetValueStep \/ SetEnabledStep

Spec == Init /\ [][Next]_vars

---------------------------------------------------------------------------
(* SpecStale: one attribute receives values with and without a measurement  *)
(* time while the wall clock advances; the measurement time of the remote   *)
(* service is not tied to the local clock.                                  *)

InitStale == InitWith(RecordingObservers, NoDelay, <<"cb1", "cb2", "cb3">>, FALSE)

MeasuredValueStep ==
    \E v \in Values, m \in Times \cup {NoTime}, t \in Times : DoSetValue("a", v, m, NoneUnit, t)

NextStale == MeasuredValueStep

SpecStale == InitStale /\ [][NextStale]_vars

---------------------------------------------------------------------------
(* SpecObs: observers are registered on and removed from an attribute, its  *)
(* parent and its sibling, and events are raised on the attribute and on    *)
(* its parent.                                                              *)

\* the add_observer calls of the client
Registrations ==
    {Entry("cb1", {"ENABLED"}, INTERNAL_HIGH, FALSE),
     Entry("cb2", {"VALUE_CHANGED"}, USER_MID, FALSE),
     Entry("cb3", {"ENABLED", "VALUE_CHANGED"}, USER_LOW, FALSE),
     Entry("cb1", {"ENABLED"}, INTERNAL_HIGH, TRUE)}

ObservedNodes == {"a", "V", "b"}

InitObs ==
    \E h \in {<<"cb1", "cb2", "cb3">>, <<"cb3", "cb2", "cb1">>} :
        InitWith(NoObservers, NoDelay, h, FALSE)

AddObserverStep ==
    \E n \in ObservedNodes, r \in Registrations : DoAddObserver(n, r.cb, r.mask, r.priority, r.ote)

RemoveObserverStep ==
    \E cb \in {"cb1", "cb2"}, flag \in {NoMask, <<{"ENABLED"}>>} : DoRemoveObserver("a", cb, flag)

NotifyStep ==
    \E n \in {"a", "V"}, flags \in {{"ENABLED"}, {"ENABLED", "VALUE_CHANGED"}} : DoNotify(n, flags)

NextObs == AddObserverStep \/ RemoveObserverStep \/ NotifyStep

SpecObs == InitObs /\ [][NextObs]_vars

---------------------------------------------------------------------------
(* SpecTxn: values are written to an attribute while its notifications are  *)
(* delayed or not, and transactions are ended on the attribute or on the    *)
(* whole tree.  An immediate and two deferred observers are registered.     *)

TxnObservers ==
    [NoObservers EXCEPT !["a"] = {Entry("cb1", ALL, USER_MID, FALSE),
                                  Entry("cb3", {"VALUE_CHANGED"}, USER_HIGH, TRUE)},
                        !["R"] = {Entry("cb2", ALL, USER_LOW, TRUE)}]

InitTxn == InitWith(TxnObservers, NoDelay, <<"cb1", "cb2", "cb3">>, TRUE)

TxnValueStep == \E v \in Values \cup {NoneVal} : DoSetValue("a", v, NoTime, NoneUnit, now)
TransactionEndStep == \E n \in {"a", "R"} : DoTransactionEnd(n)
SetDelayStep == \E b \in BOOLEAN : DoSetDelayNotifications("a", b)

NextTxn == TxnValueStep \/ TransactionEndStep \/ SetDelayStep

SpecTxn == InitTxn /\ [][NextTxn]_vars

---------------------------------------------------------------------------
(* SpecIdem: registrations are added, also repeatedly, to an attribute and  *)
(* its parent; events are raised on the attribute and its transaction is    *)
(* ended.                                                                   *)

InitIdem == InitWith(NoObservers, NoDelay, <<"cb1", "cb2", "cb3">>, FALSE)

AddAgainStep ==
    \E n \in {"a", "V"}, r \in Registrations : DoAddObserver(n, r.cb, r.mask, r.priority, r.ote)

NotifyIdemStep == \E flags \in {{"ENABLED"}, {"VALUE_CHANGED"}} : DoNotify("a", flags)

TransactionEndIdemStep == DoTransactionEnd("a")

NextIdem == AddAgainStep \/ NotifyIdemStep \/ TransactionEndIdemStep

SpecIdem == InitIdem /\ [][NextIdem]_vars

---------------------------------------------------------------------------
(* SpecFlush: events are raised on an attribute and on its parent while     *)
(* their notifications are delayed or not; immediate observers are on both. *)

FlushObservers ==
    [NoObservers EXCEPT !["a"] = {Entry("cb1", {"ENABLED"}, USER_MID, FALSE),
                                  Entry("cb3", ALL, USER_HIGH, TRUE)},
                        !["V"] = {Entry("cb2", {"VALUE_CHANGED", "DISABLED"}, INTERNAL_LOW, FALSE)}]

InitFlush == InitWith(FlushObservers, NoDelay, <<"cb1", "cb2", "cb3">>, FALSE)

RaiseStep ==
    \E n \in {"a", "V"}, flags \in {{"ENABLED"}, {"DISABLED"}, {"VALUE_CHANGED", "UPDATED"}} :
        DoNotify(n, flags)

SwitchDelayStep == \E n \in {"a", "V"}, b \in BOOLEAN : DoSetDelayNotifications(n, b)

NextFlush == RaiseStep \/ SwitchDelayStep

SpecFlush == InitFlush /\ [][NextFlush]_vars

---------------------------------------------------------------------------
(* SpecDrive: a connector writes range and level of a drive with their      *)
(* measurement times and ends the transaction on the drive.  The drive has  *)
(* registered its deferred recomputation on range and level; a client has a *)
(* deferred recording observer on the drive.                                *)

DriveObservers ==
    [NoObservers EXCEPT
        !["range"] = {Entry(OnRangeOrLevelChangeCb, {"UPDATED_NEW_MEASUREMENT"}, USER_MID, TRUE)},
        !["level"] = {Entry(OnRangeOrLevelChangeCb, {"UPDATED_NEW_MEASUREMENT"}, USER_MID, TRUE)},
        !["D"] = {Entry("cb2", ALL, USER_LOW, TRUE)}]

\* GenericDrive.__init__: the attributes are created, the drive enables itself (the
\* ENABLED it raises stays pending) and registers its observers.
InitDriveWith(obs) ==
    /\ InitSetters(DriveMinimum, NoBounds)
    /\ value = [a \in Attrs |-> NoneVal]
    /\ unit = [a \in Attrs |-> IF a \in {"range", "range_estimated_full"} THEN "UNKNOWN" ELSE NoneUnit]
    /\ enabled = [n \in Nodes |-> n = "D"]
    /\ last_changed = [a \in Attrs |-> NoTime]
    /\ last_changed_local = [a \in Attrs |-> NoTime]
    /\ last_updated = [a \in Attrs |-> NoTime]
    /\ last_updated_local = [a \in Attrs |-> NoTime]
    /\ now = 1
    /\ observers = obs
    /\ delay_notifications = NoDelay
    /\ delayed_flags = [n \in Nodes |-> NONE]
    /\ flags_to_notify_on_transaction_end = [n \in Nodes |-> IF n = "D" THEN {"ENABLED"} ELSE NONE]
    /\ hash_order = <<"cb1", "cb2", "cb3">>
    /\ log = <<>>
    /\ lastOp = OpRec("Init", NoNode)
    /\ observing = FALSE
    /\ raised = [n \in Nodes |-> {}]
    /\ last_en = [n \in Nodes |-> {}]

InitDrive == InitDriveWith(DriveObservers)

RangeValues == {100, 200}
LevelValues == {0, 50}
MeasuredTimes == {0, 1}

RangeStep == \E v \in RangeValues, m \in MeasuredTimes : DoSetValue("range", v, m, NoneUnit, now)
LevelStep == \E v \in LevelValues, m \in MeasuredTimes : DoSetValue("level", v, m, NoneUnit, now)
DriveTransactionEndStep == DoTransactionEnd("D")

NextDrive == RangeStep \/ LevelStep \/ DriveTransactionEndStep

SpecDrive == InitDrive /\ [][NextDrive]_vars

\* ---------------------------------------------------------------------------
\* SpecConv: values of several types, with and without a unit, are handed to the
\* range of a drive that an observer watches with an immediate registration.
ConvObservers ==
    [DriveObservers EXCEPT
        !["range"] = @ \cup {Entry("cb1", ALL, USER_MID, FALSE)}]

InitConv == InitDriveWith(ConvObservers)

ConvValues == {100, 200, Str(100), BadString, NoneVal}

ConvValueStep ==
    \E v \in ConvValues, m \in {NoTime, 1}, u \in Units \cup {NoneUnit} :
        \E t \in Times : DoSetValue("range", v, m, u, t)

NextConv == ConvValueStep

SpecConv == InitConv /\ [][NextConv]_vars

\* ---------------------------------------------------------------------------
\* SpecSet: values are assigned through the public setter to c, a GenericAttribute
\* with value_type float, and to range, a RangeAttribute in kilometres with minimum 0
\* and maximum 200; hooks are registered and the attributes are made changeable.
SetAttrs == {"c", "range"}

SetObservers ==
    [NoObservers EXCEPT
        !["c"] = {Entry("cb1", ALL, USER_MID, FALSE)},
        !["range"] = {Entry("cb1", ALL, USER_MID, FALSE)}]

RangeMaximum == [NoBounds EXCEPT !["range"] = <<200>>]

InitSet ==
    /\ InitSetters(DriveMinimum, RangeMaximum)
    /\ value = [a \in Attrs |-> NoneVal]
    /\ unit = [a \in Attrs |-> IF a = "range" THEN "KM" ELSE NoneUnit]
    /\ enabled = [n \in Nodes |-> FALSE]
    /\ last_changed = [a \in Attrs |-> NoTime]
    /\ last_changed_local = [a \in Attrs |-> NoTime]
    /\ last_updated = [a \in Attrs |-> NoTime]
    /\ last_updated_local = [a \in Attrs |-> NoTime]
    /\ now = 0
    /\ observers = SetObservers
    /\ delay_notifications = NoDelay
    /\ delayed_flags = [n \in Nodes |-> NONE]
    /\ flags_to_notify_on_transaction_end = [n \in Nodes |-> NONE]
    /\ hash_order = <<"cb1", "cb2", "cb3">>
    /\ log = <<>>
    /\ lastOp = OpRec("Init", NoNode)
    /\ observing = FALSE
    /\ raised = [n \in Nodes |-> {}]
    /\ last_en = [n \in Nodes |-> {}]

AssignValues ==
    [a \in SetAttrs |-> IF a = "range" THEN {100, 300, Str(100), NoneVal} ELSE {100, Str(100)}]

AssignStep == \E a \in SetAttrs : \E v \in AssignValues[a] : DoAssignValue(a, v, now)
PublicSetValueStep ==
    \E a \in SetAttrs : \E v \in AssignValues[a] \cap {100, 300} : DoPublicSetValue(a, v, "MI", now)
AddOnSetHookStep ==
    \E a \in SetAttrs, h \in HookNames, early \in BOOLEAN : DoAddOnSetHook(a, h, early)
SetChangeableStep == \E a \in SetAttrs : DoSetChangeable(a)

NextSet == AssignStep \/ PublicSetValueStep \/ AddOnSetHookStep \/ SetChangeableStep

SpecSet == InitSet /\ [][NextSet]_vars

\* ---------------------------------------------------------------------------
\* SpecPath: get_by_path is called on the objects of the garage tree with the
\* address strings of at most MaxPath parts.
PathParts == {"/", "..", "V", "a", "b", "x"}

\* two parts that are not separators are never next to each other
WellFormed(p) == \A i \in 1..(Len(p) - 1) : p[i] = "/" \/ p[i + 1] = "/"

Paths == {p \in UNION {[1..k -> PathParts] : k \in 0..MaxPath} : WellFormed(p)}

InitPath == InitWith(NoObservers, NoDelay, <<"cb1", "cb2", "cb3">>, FALSE)

GetByPathStep == \E n \in GarageObjects, p \in Paths : DoGetByPath(n, p)

NextPath == GetByPathStep

SpecPath == InitPath /\ [][NextPath]_vars

\* ---------------------------------------------------------------------------
\* SpecTree: objects and an attribute are constructed, with ids with and without a
\* separator and with and without a parent, re-parented and cloned.
InitTree == InitWith(NoObservers, NoDelay, <<"cb1", "cb2", "cb3">>, FALSE)

TreeIds == {<<"i">>, <<"i", "/", "j">>}

\* the objects made so far, and no parent
ParentChoices == (TreeObjects \cap tree.made) \cup {NoNode}

NewObjectStep == \E n \in TreeObjects, id \in TreeIds, p \in ParentChoices : DoNewObject(n, id, p)
NewAttributeStep == \E n \in TreeAttrs, id \in TreeIds, p \in ParentChoices : DoNewAttribute(n, id, p)
SetParentStep == \E n \in {"x1", "o2"}, p \in ParentChoices : DoSetParent(n, p)
\* the clone is not put below its own origin
CloneStep ==
    \E n \in TreeObjects, origin \in TreeObjects :
        \E p \in ParentChoices \ {origin} : DoClone(n, origin, p)

NextTree == NewObjectStep \/ NewAttributeStep \/ SetParentStep \/ CloneStep

SpecTree == InitTree /\ [][NextTree]_vars

\* ---------------------------------------------------------------------------
\* SpecDict: attributes of the garage tree get values and units, nodes are enabled
\* and disabled, and as_dict is called on the objects with and without a filter.
InitDict == InitWith(NoObservers, NoDelay, <<"cb1", "cb2", "cb3">>, FALSE)

DictValueStep ==
    \/ \E v \in {1, NoneVal}, u \in {NoneUnit, "KM"} : DoSetValue("a", v, NoTime, u, now)
    \/ \E v \in {1, NoneVal} : DoSetValue("c", v, NoTime, NoneUnit, now)
DictEnabledStep == \E n \in {"b", "c", "V"}, b \in BOOLEAN : DoSetEnabled(n, b)
AsDictStep == \E n \in GarageObjects, f \in FilterNames : DoAsDict(n, f)

NextDict == DictValueStep \/ DictEnabledStep \/ AsDictStep

SpecDict == InitDict /\ [][NextDict]_vars

\* ---------------------------------------------------------------------------
\* SpecCmd: enum members, strings, dicts and None are assigned to the climatization
\* command c and to the charging command b; both are changeable, as GenericCommand
\* constructs them, and each has a recording observer.
CmdObservers ==
    [NoObservers EXCEPT
        !["b"] = {Entry("cb1", ALL, USER_MID, FALSE)},
        !["c"] = {Entry("cb1", ALL, USER_MID, FALSE)}]

InitCmd ==
    /\ is_changeable = [a \in Attrs |-> a \in CommandAttrs]
    /\ on_set_hooks = [a \in Attrs |-> <<>>]
    /\ minimum = NoBounds
    /\ maximum = NoBounds
    /\ hook_log = <<>>
    /\ tree = NoTree
    /\ latest_measured = [a \in Attrs |-> NoTime]
    /\ value = [a \in Attrs |-> NoneVal]
    /\ unit = [a \in Attrs |-> NoneUnit]
    /\ enabled = [n \in Nodes |-> FALSE]
    /\ last_changed = [a \in Attrs |-> NoTime]
    /\ last_changed_local = [a \in Attrs |-> NoTime]
    /\ last_updated = [a \in Attrs |-> NoTime]
    /\ last_updated_local = [a \in Attrs |-> NoTime]
    /\ now = 0
    /\ observers = CmdObservers
    /\ delay_notifications = NoDelay
    /\ delayed_flags = [n \in Nodes |-> NONE]
    /\ flags_to_notify_on_transaction_end = [n \in Nodes |-> NONE]
    /\ hash_order = <<"cb1", "cb2", "cb3">>
    /\ log = <<>>
    /\ lastOp = OpRec("Init", NoNode)
    /\ observing = FALSE
    /\ raised = [n \in Nodes |-> {}]
    /\ last_en = [n \in Nodes |-> {}]

\* the charging command takes fewer of the values than the climatization command
CommandValues ==
    [a \in CommandAttrs |->
        IF a = "c"
        THEN {START, NoneVal, Dict(3, 0, 0), Dict(6, 0, 0)}
                 \cup {Line(i) : i \in {1, 3, 4, 6, 8, 9, 10}}
        ELSE {START, Line(3), Dict(6, 0, 0)}]

\* the enum is asked only about the command of a dict
AssignCommandStep ==
    \E a \in CommandAttrs : \E v \in CommandValues[a] :
        \E contains \in (IF IsDict(v) THEN EnumContains ELSE {"by value"}) :
            DoAssignCommand(a, v, contains, now)

\* datetime.now() moves on
TickStep ==
    /\ now < MaxTime
    /\ Commit([World EXCEPT !.now = now + 1])
    /\ lastOp' = OpRec("Tick", NoNode)

NextCmd == AssignCommandStep \/ TickStep

SpecCmd == InitCmd /\ [][NextCmd]_vars

\* ---------------------------------------------------------------------------
\* SpecUnits: sample values are converted between two units of one quantity and
\* what comes out is converted back; the range, constructed with a value in one of
\* the units of Length, is asked for its value in a locale.
Samples == {0 - 40, 0, 1, 100}
RangeSamples == {0, 100}
Locales ==
    {<<"en_US", "">>, <<"en_US", ".UTF-8">>, <<"en_GB", "">>, <<"en_LR", "">>, <<"en_MM", "">>,
     <<"de_DE", "">>, <<"en_AU", "">>, NoLocale}

InitUnits ==
    /\ InitSetters(DriveMinimum, NoBounds)
    /\ \E x \in RangeSamples : value = [a \in Attrs |-> IF a = "range" THEN x ELSE NoneVal]
    /\ \E u \in Length : unit = [a \in Attrs |-> IF a = "range" THEN u ELSE NoneUnit]
    /\ enabled = [n \in Nodes |-> FALSE]
    /\ last_changed = [a \in Attrs |-> NoTime]
    /\ last_changed_local = [a \in Attrs |-> NoTime]
    /\ last_updated = [a \in Attrs |-> NoTime]
    /\ last_updated_local = [a \in Attrs |-> NoTime]
    /\ now = 0
    /\ observers = NoObservers
    /\ delay_notifications = NoDelay
    /\ delayed_flags = [n \in Nodes |-> NONE]
    /\ flags_to_notify_on_transaction_end = [n \in Nodes |-> NONE]
    /\ hash_order = <<"cb1", "cb2", "cb3">>
    /\ log = <<>>
    /\ lastOp = OpRec("Init", NoNode)
    /\ observing = FALSE
    /\ raised = [n \in Nodes |-> {}]
    /\ last_en = [n \in Nodes |-> {}]

ConvertStep ==
    \E x \in Samples, q \in Quantities : \E from \in q : \E to \in q \ {from} :
        DoConvert(x, from, to)
ConvertBackStep == DoConvertBack
InLocaleStep == \E locale \in Locales : DoInLocale(locale)

NextUnits == ConvertStep \/ ConvertBackStep \/ InLocaleStep

SpecUnits == InitUnits /\ [][NextUnits]_vars

\* ---------------------------------------------------------------------------
\* SpecReg: observers that change the registrations while they are called are
\* registered on the attribute a and on its parent V, a is notified and its
\* transaction is ended.
ChangingRegistrations ==
    {Entry("add_on_element", ALL, USER_HIGH, FALSE),
     Entry("add_on_element", ALL, USER_HIGH, TRUE),
     Entry("add_on_parent", ALL, USER_MID, FALSE),
     Entry("remove_on_element", ALL, INTERNAL_HIGH, FALSE),
     Entry("cb1", ALL, USER_MID, FALSE),
     Entry("cb2", ALL, INTERNAL_LOW, TRUE)}

InitReg ==
    InitWith(NoObservers, NoDelay,
             <<"cb1", "cb2", "cb3", "add_on_element", "add_on_parent", "remove_on_element">>, FALSE)

RegisterStep ==
    \E n \in {"a", "V"}, r \in ChangingRegistrations :
        DoAddObserver(n, r.cb, r.mask, r.priority, r.ote)
NotifyRegStep == DoNotify("a", {"VALUE_CHANGED"})
TransactionEndRegStep == DoTransactionEnd("a")

NextReg == RegisterStep \/ NotifyRegStep \/ TransactionEndRegStep

SpecReg == InitReg /\ [][NextReg]_vars

\* ---------------------------------------------------------------------------
\* SpecRetry: a connector delivers values to one attribute, with a measurement time
\* that is not later than the wall clock or without one, and delivers some of them
\* again.
InitRetry == InitWith(RecordingObservers, NoDelay, <<"cb1", "cb2", "cb3">>, TRUE)

DeliverStep ==
    \E v \in Values, t \in Times : \E m \in (0..t) \cup {NoTime} : DoSetValue("a", v, m, NoneUnit, t)

NextRetry == DeliverStep

SpecRetry == InitRetry /\ [][NextRetry]_vars

\* ---------------------------------------------------------------------------
\* SpecRounds: a connector writes range and level of a drive round after round, each
\* write with a measured time that is later than the one the attribute has and not
\* later than the wall clock, and ends the transaction on the drive.
RoundRangeValues == {100, 200}
RoundLevelValues == {50, 100}

InitRounds == InitDriveWith(DriveObservers)

\* a measurement is taken at the wall clock of its write or one tick before it
RoundMeasured(t) == {m \in Times : m = t \/ m + 1 = t}

WriteRangeStep ==
    \E v \in RoundRangeValues, t \in Times : \E m \in RoundMeasured(t) :
        last_updated["range"] < m /\ DoSetValue("range", v, m, NoneUnit, t)
WriteLevelStep ==
    \E v \in RoundLevelValues, t \in Times : \E m \in RoundMeasured(t) :
        last_updated["level"] < m /\ DoSetValue("level", v, m, NoneUnit, t)
RoundEndStep == DoTransactionEnd("D")

NextRounds == WriteRangeStep \/ WriteLevelStep \/ RoundEndStep

SpecRounds == InitRounds /\ [][NextRounds]_vars

\* ---------------------------------------------------------------------------
\* SpecScope: the notifications of an Object are delayed or not while values are
\* written to an attribute in its subtree and nodes of the subtree are enabled and
\* disabled; immediate observers are on the attribute, on the Object and on the root.
ScopeObservers ==
    [NoObservers EXCEPT !["a"] = {Entry("cb1", ALL, USER_MID, FALSE)},
                        !["V"] = {Entry("cb2", ALL, USER_LOW, FALSE)},
                        !["R"] = {Entry("cb3", {"ENABLED", "DISABLED"}, USER_HIGH, FALSE)}]

InitScope == InitWith(ScopeObservers, NoDelay, <<"cb1", "cb2", "cb3">>, FALSE)

ScopeDelayStep == \E b \in BOOLEAN : DoSetDelayNotifications("V", b)
ScopeValueStep == \E v \in Values \cup {NoneVal} : DoSetValue("a", v, NoTime, NoneUnit, now)
ScopeEnabledStep == \E n \in {"a", "b", "V"}, b \in BOOLEAN : DoSetEnabled(n, b)

NextScope == ScopeDelayStep \/ ScopeValueStep \/ ScopeEnabledStep

SpecScope == InitScope /\ [][NextScope]_vars

\* ---------------------------------------------------------------------------
\* The constructors of the library's classes, as the GenericObject and
\* GenericAttribute constructions they make, in the order of the source.  An id is
\* one word here.
Obj(n, id, p) == [kind |-> "object", node |-> n, id |-> <<id>>, parent |-> p]
Att(n, id, p) == [kind |-> "attribute", node |-> n, id |-> <<id>>, parent |-> p]

RECURSIVE Construct(_, _)
Construct(t, steps) ==
    IF steps = <<>> \/ t.error # "none" THEN t
    ELSE LET s == Head(steps)
         IN Construct(IF s.kind = "object" THEN NewObject(t, s.node, s.id, s.parent)
                      ELSE NewAttribute(t, s.node, s.id, s.parent),
                      Tail(steps))

\* ChargingConnector.__init__(charging)
ChargingConnectorInit(s, charging) ==
    <<Obj(s.self, "connector", charging),
      Att(s.connection_state, "connection_state", s.self),
      Att(s.lock_state, "lock_state", s.self),
      Att(s.external_power, "lock_state", s.self)>>

\* GenericDrive.__init__(drive_id, drives)
GenericDriveInit(s, drive_id, drives) ==
    <<Obj(s.self, drive_id, drives),
      Att(s.type, "type", s.self),
      Att(s.range, "range", s.self),
      Att(s.range_estimated_full, "range_estimated_full", s.self),
      Att(s.range_wltp, "range_wltp", s.self),
      Att(s.level, "level", s.self)>>

\* FuelTank.__init__(drive)
FuelTankInit(s, drive) ==
    <<Obj(s.self, "fuel_tank", drive),
      Att(s.available_capacity, "available_capacity", s.self)>>

\* CombustionDrive.__init__(drive_id, drives)
CombustionDriveInit(s, drive_id, drives) ==
    GenericDriveInit(s, drive_id, drives)
    \o FuelTankInit(s.fuel_tank, s.self)
    \o <<Att(s.consumption, "consumption", s.self)>>

\* DieselDrive.__init__(drive_id, drives)
DieselDriveInit(s, drive_id, drives) ==
    CombustionDriveInit(s, drive_id, drives)
    \o FuelTankInit(s.adblue_tank, s.self)
    \o <<Att(s.adblue_range, "adblue_range", s.self),
         Att(s.adblue_level, "adblue_level", s.self),
         Att(s.adblue_range_estimated_full, "adblue_range_estimated_full", s.self),
         Att(s.adblue_consumption, "consumption", s.self)>>

\* The nodes of the instances that SpecBuild constructs: one per field of the class.
ConnectorNodes ==
    [self |-> "cc", connection_state |-> "cc.connection_state",
     lock_state |-> "cc.lock_state", external_power |-> "cc.external_power"]
CombustionNodes ==
    [self |-> "cd", type |-> "cd.type", range |-> "cd.range",
     range_estimated_full |-> "cd.range_estimated_full", range_wltp |-> "cd.range_wltp",
     level |-> "cd.level", consumption |-> "cd.consumption",
     fuel_tank |-> [self |-> "cd.fuel_tank",
                    available_capacity |-> "cd.fuel_tank.available_capacity"]]
DieselNodes ==
    [self |-> "dd", type |-> "dd.type", range |-> "dd.range",
     range_estimated_full |-> "dd.range_estimated_full", range_wltp |-> "dd.range_wltp",
     level |-> "dd.level", consumption |-> "dd.consumption",
     fuel_tank |-> [self |-> "dd.fuel_tank",
                    available_capacity |-> "dd.fuel_tank.available_capacity"],
     adblue_tank |-> [self |-> "dd.adblue_tank",
                      available_capacity |-> "dd.adblue_tank.available_capacity"],
     adblue_range |-> "dd.adblue_range", adblue_level |-> "dd.adblue_level",
     adblue_range_estimated_full |-> "dd.adblue_range_estimated_full",
     adblue_consumption |-> "dd.adblue_consumption"]

BuiltRoots == {"r1", "r2"}
BuiltObjects ==
    BuiltRoots \cup {"cc", "cd", "cd.fuel_tank", "dd", "dd.fuel_tank", "dd.adblue_tank"}
BuiltNodes ==
    BuiltRoots
    \cup {s.node : s \in {ChargingConnectorInit(ConnectorNodes, "r1")[i] : i \in 1..4}}
    \cup {s.node : s \in {CombustionDriveInit(CombustionNodes, "primary", "r1")[i] : i \in 1..9}}
    \cup {s.node : s \in {DieselDriveInit(DieselNodes, "secondary", "r1")[i] : i \in 1..15}}

NoBuiltTree ==
    [made |-> {},
     id |-> [n \in BuiltNodes |-> <<>>],
     parent |-> [n \in BuiltNodes |-> NoNode],
     children |-> [n \in BuiltObjects |-> n],
     lists |-> [r \in BuiltObjects |-> <<>>],
     error |-> "none"]

\* n = Class(..., parent), the constructions of its constructor
DoBuild(op, n, steps) ==
    /\ n \notin tree.made
    /\ TreeOp(op, n, steps[1].id, Construct(Cleared(tree), steps))

\* ---------------------------------------------------------------------------
\* SpecBuild: two root objects, a charging connector, a combustion drive and a diesel
\* drive are constructed, each below a root made before; the drives get ids of
\* their own.
InitBuild ==
    /\ is_changeable = [a \in Attrs |-> FALSE]
    /\ on_set_hooks = [a \in Attrs |-> <<>>]
    /\ minimum = NoBounds
    /\ maximum = NoBounds
    /\ hook_log = <<>>
    /\ tree = NoBuiltTree
    /\ latest_measured = [a \in Attrs |-> NoTime]
    /\ value = [a \in Attrs |-> NoneVal]
    /\ unit = [a \in Attrs |-> NoneUnit]
    /\ enabled = [n \in Nodes |-> FALSE]
    /\ last_changed = [a \in Attrs |-> NoTime]
    /\ last_changed_local = [a \in Attrs |-> NoTime]
    /\ last_updated = [a \in Attrs |-> NoTime]
    /\ last_updated_local = [a \in Attrs |-> NoTime]
    /\ now = 0
    /\ observers = NoObservers
    /\ delay_notifications = NoDelay
    /\ delayed_flags = [n \in Nodes |-> NONE]
    /\ flags_to_notify_on_transaction_end = [n \in Nodes |-> NONE]
    /\ hash_order = <<"cb1", "cb2", "cb3">>
    /\ log = <<>>
    /\ lastOp = OpRec("Init", NoNode)
    /\ observing = FALSE
    /\ raised = [n \in Nodes |-> {}]
    /\ last_en = [n \in Nodes |-> {}]

BuiltParents == BuiltRoots \cap tree.made

RootStep == \E r \in BuiltRoots : DoBuild("GenericObject", r, <<Obj(r, r, NoNode)>>)
ChargingConnectorStep ==
    \E p \in BuiltParents :
        DoBuild("ChargingConnector", "cc", ChargingConnectorInit(ConnectorNodes, p))
CombustionDriveStep ==
    \E p \in BuiltParents :
        DoBuild("CombustionDrive", "cd", CombustionDriveInit(CombustionNodes, "primary", p))
DieselDriveStep ==
    \E p \in BuiltParents :
        DoBuild("DieselDrive", "dd", DieselDriveInit(DieselNodes, "secondary", p))

NextBuild == RootStep \/ ChargingConnectorStep \/ CombustionDriveStep \/ DieselDriveStep

SpecBuild == InitBuild /\ [][NextBuild]_vars

\* ---------------------------------------------------------------------------
\* SpecAbs: the absolute path of each node of the two trees is computed and looked up
\* from the root of the node; besides, addresses are looked up as in SpecPath.
InitAbs == InitWith(NoObservers, NoDelay, <<"cb1", "cb2", "cb3">>, FALSE)

GetByAbsolutePathStep == \E n \in Nodes : DoGetByAbsolutePath(n)

NextAbs == GetByAbsolutePathStep \/ GetByPathStep

SpecAbs == InitAbs /\ [][NextAbs]_vars

\* ---------------------------------------------------------------------------
\* CarConnectivity.fetch_all.  A connector is what its fetch_all does: it returns
\* ("ok") or raises an exception of the named class.  The pass over the connectors
\* keeps the pending retrieval_error, the number of connectors called and the
\* exception that left the loop, if any.
MaxConnectors == 4

RetrievalErrors == {"RetrievalError", "MultipleRetrievalError"}
ConnectorOutcomes == {"ok"} \cup RetrievalErrors

\* only MultipleRetrievalError.__init__ gives its instances an errors set
HasErrors(kind) == kind = "MultipleRetrievalError"

FetchStart == [retrieval_error |-> "none", called |-> 0, raised |-> "none"]

\* the two branches that merge a second error read retrieval_error.errors, or add the
\* errors set of one exception to the errors set of the other
MergeError(f, err) ==
    IF err = "MultipleRetrievalError"
    THEN (IF HasErrors(f.retrieval_error) THEN [f EXCEPT !.raised = "TypeError"]
          ELSE [f EXCEPT !.raised = "AttributeError"])
    ELSE (IF HasErrors(f.retrieval_error) THEN [f EXCEPT !.raised = "TypeError"]
          ELSE [f EXCEPT !.raised = "AttributeError"])

\* one turn of the loop: connector.fetch_all() and the except clause
FetchOne(f, outcome) ==
    LET g == [f EXCEPT !.called = @ + 1]
    IN IF outcome = "ok" THEN g
       ELSE IF g.retrieval_error = "none" THEN [g EXCEPT !.retrieval_error = outcome]
       ELSE MergeError(g, outcome)

RECURSIVE FetchLoop(_, _)
FetchLoop(f, outcomes) ==
    IF outcomes = <<>> \/ f.raised # "none" THEN f
    ELSE FetchLoop(FetchOne(f, Head(outcomes)), Tail(outcomes))

\* CarConnectivity.fetch_all
FetchAll(outcomes) ==
    LET f == FetchLoop(FetchStart, outcomes)
    IN IF f.raised = "none" /\ f.retrieval_error # "none"
       THEN [f EXCEPT !.raised = f.retrieval_error]
       ELSE f

\* car_connectivity.fetch_all() with the connectors outcomes
DoFetchAll(outcomes) ==
    /\ Commit(World)
    /\ lastOp' = [OpRec("fetch_all", NoNode) EXCEPT
                      !.path = outcomes,
                      !.result = FetchAll(outcomes).called,
                      !.error = FetchAll(outcomes).raised,
                      !.raises = FetchAll(outcomes).raised # "none"]

\* ---------------------------------------------------------------------------
\* SpecFetch: fetch_all is called with up to MaxConnectors connectors, each of which
\* returns, raises a RetrievalError or raises a MultipleRetrievalError.
InitFetch == InitWith(NoObservers, NoDelay, <<"cb1", "cb2", "cb3">>, FALSE)

FetchAllStep ==
    \E k \in 0..MaxConnectors : \E outcomes \in [1..k -> ConnectorOutcomes] : DoFetchAll(outcomes)

NextFetch == FetchAllStep

SpecFetch == InitFetch /\ [][NextFetch]_vars

\* ---------------------------------------------------------------------------
\* SpecLoc: values are written to the attributes of the Location below a position,
\* and the Location is cleared.
InitLoc == InitWith(NoObservers, NoDelay, <<"cb1", "cb2", "cb3">>, FALSE)

LocationValueStep ==
    \E a \in LocationAttrs, v \in Values \cup {NoneVal} : DoSetValue(a, v, NoTime, NoneUnit, now)
LocationClearStep == DoLocationClear

NextLoc == LocationValueStep \/ LocationClearStep

SpecLoc == InitLoc /\ [][NextLoc]_vars

\* ---------------------------------------------------------------------------
\* SpecHooks: hooks are registered on the attribute c, once or repeatedly, removed
\* and asked for, and values are assigned to the attribute, changeable or not.
HookValues == {100, 200}

InitHooks == InitSet

HookAddStep == \E h \in HookNames, early \in BOOLEAN : DoAddOnSetHook("c", h, early)
HookRemoveStep == \E h \in HookNames : DoRemoveOnSetHook("c", h)
HookHasStep == \E h \in HookNames : DoHasOnSetHook("c", h)
HookAssignStep == \E v \in HookValues : DoAssignValue("c", v, now)
HookChangeableStep == DoSetChangeable("c")

NextHooks == HookAddStep \/ HookRemoveStep \/ HookHasStep \/ HookAssignStep \/ HookChangeableStep

SpecHooks == InitHooks /\ [][NextHooks]_vars

---------------------------------------------------------------------------
(* Properties *)

RECURSIVE AncestorsOf(_)
AncestorsOf(n) == IF Parent(n) = NoNode THEN {} ELSE {Parent(n)} \cup AncestorsOf(Parent(n))

ChildSet(p) == {Children(p)[i] : i \in 1..Len(Children(p))}

IsCall(c, n, flags) == c.element = n /\ c.flags = flags

\* C1: after any successful _set_value call on an attribute A, A.enabled equals
\* (A.value is not None), whatever _set_value calls and enabled assignments came before.
C1_EnabledIffValue ==
    (lastOp.op = "SetValue" /\ lastOp.proceeded)
        => (enabled[lastOp.node] = (value[lastOp.node] # NoneVal))

\* C2: in every state, and in every state an observer callback sees in the middle of
\* a cascade, every enabled node that has a parent has an enabled parent.
EnabledParent(en) == \A n \in Nodes : (en[n] /\ Parent(n) # NoNode) => en[Parent(n)]

C2_EnabledParent ==
    /\ EnabledParent(enabled)
    /\ \A i \in 1..Len(log) : EnabledParent(log[i].snap)

\* a disable cascade from the root over three enabled attributes: the first callback
\* (for attribute a) runs while the root, G and V are still enabled
C2_Witness ==
    /\ lastOp.op = "SetEnabled" /\ lastOp.node = "R" /\ ~lastOp.en
    /\ Len(log) = 6
    /\ IsCall(log[1], "a", {"DISABLED"})
    /\ log[1].snap["V"] /\ log[1].snap["R"] /\ log[1].snap["c"]
    /\ ~enabled["R"]

\* C3: when _set_value enables an attribute, every ancestor is enabled afterwards, the
\* attribute's ENABLED notification is delivered, and at the moment of its delivery
\* every ancestor's enabled flag is already true.
C3_AncestorsEnabledFirst ==
    [][\A a \in Attrs :
          (lastOp'.op = "SetValue" /\ lastOp'.node = a /\ ~enabled[a] /\ enabled'[a])
              => /\ \A m \in AncestorsOf(a) : enabled'[m]
                 /\ \E i \in 1..Len(log') : IsCall(log'[i], a, {"ENABLED"})
                 /\ \A i \in 1..Len(log') :
                        IsCall(log'[i], a, {"ENABLED"}) => \A m \in AncestorsOf(a) : log'[i].snap[m]
      ]_vars

\* the first value written to a on a fresh tree: R, G, V and a are notified as ENABLED
\* in this order, then the value change
C3_Witness ==
    /\ lastOp.op = "SetValue" /\ lastOp.node = "a"
    /\ Len(log) = 5
    /\ IsCall(log[1], "R", {"ENABLED"})
    /\ IsCall(log[3], "V", {"ENABLED"})
    /\ IsCall(log[4], "a", {"ENABLED"})
    /\ ~log[1].snap["a"]

\* C4: disabling the last enabled child of an Object disables the Object, and the
\* Object's DISABLED notification comes after every child is disabled and every child
\* that was enabled has been notified as DISABLED; disabling one of several enabled
\* siblings leaves the parent enabled and notifies nothing for the parent.
DisablingStep(x) ==
    /\ lastOp'.node = x
    /\ lastOp'.op \in {"SetValue", "SetEnabled"}
    /\ enabled[x] /\ ~enabled'[x]

C4_CascadingDisable ==
    [][\A x \in Nodes :
          (Parent(x) # NoNode /\ DisablingStep(x)) =>
              LET p == Parent(x)
              IN IF \A y \in ChildSet(p) \ {x} : ~enabled[y]
                 THEN /\ ~enabled'[p]
                      /\ \E j \in 1..Len(log') :
                            /\ IsCall(log'[j], p, {"DISABLED"})
                            /\ \A c \in ChildSet(p) : ~log'[j].snap[c]
                            /\ \A c \in ChildSet(p) :
                                   enabled[c] => \E i \in 1..(j - 1) : IsCall(log'[i], c, {"DISABLED"})
                 ELSE /\ enabled'[p]
                      /\ \A j \in 1..Len(log') : log'[j].element # p
      ]_vars

\* a loses its value while b is disabled and c is enabled: a and then V are notified
\* as DISABLED, and G, which still has the enabled child c, stays enabled
C4_Witness ==
    /\ lastOp.op = "SetValue" /\ lastOp.node = "a" /\ lastOp.value = NoneVal
    /\ Len(log) = 3
    /\ IsCall(log[1], "a", {"DISABLED"})
    /\ IsCall(log[2], "V", {"DISABLED"})
    /\ ~enabled["V"] /\ enabled["c"] /\ enabled["G"]

\* C5: a _set_value call whose measured time is strictly earlier than the attribute's
\* last_updated changes nothing (value, unit, enabled, the four timestamps, the pending
\* masks of the attribute and its ancestors) and invokes no observer.
C5_StaleChangesNothing ==
    [][\A a \in Attrs :
          (/\ lastOp'.op = "SetValue" /\ lastOp'.node = a
           /\ last_updated[a] # NoTime /\ lastOp'.measured # NoTime
           /\ lastOp'.measured < last_updated[a])
              => /\ value' = value /\ unit' = unit /\ enabled' = enabled
                 /\ last_changed' = last_changed /\ last_changed_local' = last_changed_local
                 /\ last_updated' = last_updated /\ last_updated_local' = last_updated_local
                 /\ flags_to_notify_on_transaction_end' = flags_to_notify_on_transaction_end
                 /\ delayed_flags' = delayed_flags
                 /\ log' = <<>>
      ]_vars

\* C5, the pair: _set_value(v1, measured=t2) that went through, directly followed by
\* _set_value(v2, measured=t1) with t1 < t2, leaves the value at v1.
C5_EarlierMeasurementKeepsValue ==
    [][\A a \in Attrs :
          (/\ lastOp.op = "SetValue" /\ lastOp.node = a /\ lastOp.proceeded
           /\ lastOp'.op = "SetValue" /\ lastOp'.node = a
           /\ lastOp.measured # NoTime /\ lastOp'.measured # NoTime
           /\ lastOp'.measured < lastOp.measured)
              => value'[a] = lastOp.value
      ]_vars

\* a stale call happened: the attribute holds 1, updated at 2, and 2 measured at 1 came in
C5_Witness ==
    /\ lastOp.op = "SetValue" /\ ~lastOp.proceeded
    /\ lastOp.value = 2 /\ lastOp.measured = 1
    /\ value["a"] = 1 /\ last_updated["a"] = 2

\* C6: the observers called by a notify, registered on the node or on its ancestors,
\* are called in non-decreasing priority value, whatever the iteration order of the
\* observer set.
C6_PriorityOrder ==
    (lastOp.op = "Notify")
        => \A i, j \in 1..Len(log) : (i < j) => (log[i].priority <= log[j].priority)

\* observers at INTERNAL_HIGH (on the parent), USER_MID and USER_LOW (on the attribute),
\* the set iterating the USER_LOW one first: called as INTERNAL_HIGH, USER_MID, USER_LOW
C6_Witness ==
    /\ lastOp.op = "Notify" /\ lastOp.node = "a"
    /\ hash_order = <<"cb3", "cb2", "cb1">>
    /\ Len(log) = 3
    /\ log[1].priority = INTERNAL_HIGH /\ log[1].cb = "cb1"
    /\ log[2].priority = USER_MID /\ log[2].cb = "cb2"
    /\ log[3].priority = USER_LOW /\ log[3].cb = "cb3"
    /\ Entry("cb1", {"ENABLED"}, INTERNAL_HIGH, FALSE) \in observers["V"]

\* the registration a call was made for
RegistrationOf(c) == Entry(c.cb, c.mask, c.priority, c.ote)

\* the flags of ENABLED / DISABLED
EnablementFlags == {"ENABLED", "DISABLED"}

\* the registrations on a node or on one of its ancestors
RegisteredAbove(obs, n) == UNION {obs[m] : m \in {n} \cup AncestorsOf(n)}

\* C7 as stated: while delay_notifications is true on the attribute, _set_value calls
\* no immediate observer registered on the attribute, and transaction_end calls every
\* matching deferred observer exactly once with the OR of all flags raised on the
\* attribute since its previous flush.
C7_DeferredMaskIsOr ==
    [][/\ (lastOp'.op = "SetValue" /\ lastOp'.node = "a" /\ delay_notifications["a"])
            => \A i \in 1..Len(log') :
                   ~(log'[i].element = "a" /\ ~log'[i].ote /\ RegistrationOf(log'[i]) \in observers["a"])
       /\ (lastOp'.op = "TransactionEnd" /\ delay_notifications["a"])
            => LET delivered == raised["a"]
                   expected == {e \in RegisteredAbove(observers, "a") :
                                    e.ote /\ e.mask \cap delivered # {}}
                   calls == {i \in 1..Len(log') : log'[i].element = "a"}
               IN /\ Cardinality(calls) = Cardinality(expected)
                  /\ {RegistrationOf(log'[i]) : i \in calls} = expected
                  /\ \A i \in calls : log'[i].flags = delivered /\ log'[i].ote
      ]_vars

\* C7 amended: as C7, the mask being the OR of all flags raised on the attribute since
\* its previous flush except that, of ENABLED and DISABLED, only what the latest notify
\* call carrying one of them raised is included.
C7_DeferredMaskLastEnablement ==
    [][/\ (lastOp'.op = "SetValue" /\ lastOp'.node = "a" /\ delay_notifications["a"])
            => \A i \in 1..Len(log') :
                   ~(log'[i].element = "a" /\ ~log'[i].ote /\ RegistrationOf(log'[i]) \in observers["a"])
       /\ (lastOp'.op = "TransactionEnd" /\ delay_notifications["a"])
            => LET delivered == (raised["a"] \ EnablementFlags) \cup last_en["a"]
                   expected == {e \in RegisteredAbove(observers, "a") :
                                    e.ote /\ e.mask \cap delivered # {}}
                   calls == {i \in 1..Len(log') : log'[i].element = "a"}
               IN /\ Cardinality(calls) = Cardinality(expected)
                  /\ {RegistrationOf(log'[i]) : i \in calls} = expected
                  /\ \A i \in calls : log'[i].flags = delivered /\ log'[i].ote
      ]_vars

\* delayed value changes v1, None, v2 on the attribute, then the transaction ends: both
\* deferred observers are called once, with ENABLED, VALUE_CHANGED and UPDATED
C7_Witness ==
    /\ lastOp.op = "TransactionEnd" /\ lastOp.node = "a"
    /\ delay_notifications["a"]
    /\ delayed_flags["a"] = {"ENABLED", "DISABLED", "VALUE_CHANGED", "UPDATED"}
    /\ Len(log) = 2
    /\ log[1].cb = "cb3" /\ log[2].cb = "cb2"
    /\ log[1].flags = {"ENABLED", "VALUE_CHANGED", "UPDATED"}
    /\ log[2].flags = log[1].flags

\* C8: the mask delivered by transaction_end never contains both ENABLED and DISABLED,
\* also when delay_notifications was switched on and off between the flushes.
C8_NeverBothEnablementFlags ==
    (lastOp.op = "TransactionEnd")
        => \A i \in 1..Len(log) : ~(EnablementFlags \subseteq log[i].flags)

\* C9: notify(flags) on a node that does not delay calls, with the node as element and
\* flags as flags, every immediate registration on the node or an ancestor whose mask
\* intersects flags, each once, and calls nothing else.
C9_NotifyCallsChain ==
    [][\A n \in Nodes :
          (lastOp'.op = "Notify" /\ lastOp'.node = n /\ ~delay_notifications[n])
              => LET expected == {e \in RegisteredAbove(observers, n) :
                                      ~e.ote /\ e.mask \cap lastOp'.flags # {}}
                 IN /\ Len(log') = Cardinality(expected)
                    /\ {RegistrationOf(log'[i]) : i \in 1..Len(log')} = expected
                    /\ \A i \in 1..Len(log') : IsCall(log'[i], n, lastOp'.flags)
      ]_vars

\* notify(ENABLED) on a: the observer on a and the one on the parent V are called, the
\* deferred one on a, the one on the sibling b and the VALUE_CHANGED one are not
C9_Witness ==
    /\ lastOp.op = "Notify" /\ lastOp.node = "a" /\ lastOp.flags = {"ENABLED"}
    /\ observers["a"] = {Entry("cb3", {"ENABLED", "VALUE_CHANGED"}, USER_LOW, FALSE),
                         Entry("cb1", {"ENABLED"}, INTERNAL_HIGH, TRUE)}
    /\ observers["V"] = {Entry("cb1", {"ENABLED"}, INTERNAL_HIGH, FALSE)}
    /\ Len(log) = 2
    /\ log[1].cb = "cb1" /\ ~log[1].ote /\ log[2].cb = "cb3"

\* C10: remove_observer(callback, event_mask) removes from the node the registrations of
\* the callback and, if a mask is given, those of the mask, and keeps all others.
C10_RemoveObserver ==
    [][\A n \in Nodes :
          (lastOp'.op = "RemoveObserver" /\ lastOp'.node = n)
              => observers'[n] =
                    {e \in observers[n] :
                        ~(e.cb = lastOp'.cb \/ (lastOp'.flags # {} /\ e.mask = lastOp'.flags))}
      ]_vars

\* the calls of a handler made for one registration with one element
CallsFor(lg, e, n) == {i \in 1..Len(lg) : RegistrationOf(lg[i]) = e /\ lg[i].element = n}

\* C11: add_observer with a tuple (callback, mask, priority, on_transaction_end) that is
\* already registered on the node changes nothing, and every registration of a node is
\* called exactly once per matching notify (immediate) or transaction_end (deferred).
C11_AddObserverIdempotent ==
    [][\A n \in Nodes :
          /\ (lastOp'.op = "AddObserver" /\ lastOp'.node = n /\ ~lastOp'.proceeded)
                => observers' = observers
          /\ (lastOp'.op = "Notify" /\ lastOp'.node = n)
                => \A e \in observers[n] :
                       (~e.ote /\ e.mask \cap lastOp'.flags # {})
                           => Cardinality(CallsFor(log', e, n)) = 1
          /\ (lastOp'.op = "TransactionEnd" /\ lastOp'.node = n)
                => \A e \in observers[n] :
                       (e.ote /\ e.mask \cap flags_to_notify_on_transaction_end[n] # {})
                           => Cardinality(CallsFor(log', e, n)) = 1
      ]_vars

\* (cb1, ENABLED, INTERNAL_HIGH, deferred) is added to a although it is registered there
\* along with the immediate registration of cb3
C11_Witness ==
    /\ lastOp.op = "AddObserver" /\ lastOp.node = "a" /\ ~lastOp.proceeded
    /\ lastOp.cb = "cb1" /\ lastOp.en
    /\ observers["a"] = {Entry("cb1", {"ENABLED"}, INTERNAL_HIGH, TRUE),
                         Entry("cb3", {"ENABLED", "VALUE_CHANGED"}, USER_LOW, FALSE)}
    /\ flags_to_notify_on_transaction_end["a"] = {"ENABLED"}

\* C12: flags notified while delay_notifications is on are accumulated (OR) and call
\* nobody; switching the delay off calls every immediate observer whose mask intersects
\* the accumulated flags exactly once with these flags and empties the accumulated mask;
\* assigning False while the delay is off, or with nothing accumulated, calls nobody.
C12_DelayOffFlushes ==
    [][\A n \in Nodes :
          /\ (lastOp'.op = "Notify" /\ lastOp'.node = n /\ delay_notifications[n])
                => /\ delayed_flags'[n] = delayed_flags[n] \cup lastOp'.flags
                   /\ log' = <<>>
          /\ (lastOp'.op = "SetDelayNotifications" /\ lastOp'.node = n /\ ~lastOp'.en)
                => LET acc == IF delay_notifications[n] THEN delayed_flags[n] ELSE {}
                       expected == {e \in RegisteredAbove(observers, n) :
                                        ~e.ote /\ e.mask \cap acc # {}}
                   IN /\ Len(log') = Cardinality(expected)
                      /\ {RegistrationOf(log'[i]) : i \in 1..Len(log')} = expected
                      /\ \A i \in 1..Len(log') : IsCall(log'[i], n, acc)
                      /\ delayed_flags'[n] = {}
                      /\ ~delay_notifications'[n]
      ]_vars

\* ENABLED, DISABLED and a value change were raised on a while delayed; the delay is
\* switched off: cb1 on a and cb2 on the parent are each called once with all four flags
C12_Witness ==
    /\ lastOp.op = "SetDelayNotifications" /\ lastOp.node = "a" /\ ~lastOp.en
    /\ Len(log) = 2
    /\ log[1].cb = "cb1" /\ log[2].cb = "cb2"
    /\ log[1].flags = {"ENABLED", "DISABLED", "VALUE_CHANGED", "UPDATED"}
    /\ log[2].flags = log[1].flags
    /\ delayed_flags["a"] = {}

\* C13: in a transaction_end on an Object every deferred-observer call made for the
\* events of a descendant comes before every call made for the events of the node the
\* descendant is below.
C13_ChildrenFlushedFirst ==
    (lastOp.op = "TransactionEnd")
        => \A i, j \in 1..Len(log) :
               (log[j].element \in AncestorsOf(log[i].element)) => (i < j)

\* the first value of a was written and the transaction of the root is ended: the calls
\* are made for a (both deferred observers), then V, G and at last R
C13_Witness ==
    /\ lastOp.op = "TransactionEnd" /\ lastOp.node = "R"
    /\ Len(log) = 5
    /\ log[1].element = "a" /\ log[2].element = "a"
    /\ log[3].element = "V" /\ log[4].element = "G" /\ log[5].element = "R"
    /\ \A i \in 1..5 : log[i].ote

DescendantsOf(n) == {m \in Nodes : n \in AncestorsOf(m)}

\* C14: when transaction_end on an Object has returned, the pending transaction-end
\* mask is empty on the Object and on every node of its subtree, also when a deferred
\* observer has written to another attribute during the flush.
C14_NothingPendingAfterTransactionEnd ==
    (lastOp.op = "TransactionEnd")
        => \A m \in {lastOp.node} \cup DescendantsOf(lastOp.node) :
               flags_to_notify_on_transaction_end[m] = NONE

MaxTime2(x, y) == IF x >= y THEN x ELSE y

\* C20: when a transaction_end recomputes range_estimated_full from range and level, the
\* measured time passed to its _set_value (which the changed value keeps as last_changed)
\* is the maximum of the last_updated times of range and level.
C20_DerivedMeasuredIsMax ==
    [][(lastOp'.op = "TransactionEnd"
            /\ value'["range_estimated_full"] # value["range_estimated_full"])
          => last_changed'["range_estimated_full"]
                = MaxTime2(last_updated["range"], last_updated["level"])
      ]_vars

\* the flags the recording observer on the root was called with for a node by a handler
FlagsRaisedOn(lg, n) == UNION {lg[i].flags : i \in {k \in 1..Len(lg) : lg[k].element = n}}

\* a _set_value call on a whose measured time is not earlier than last_updated
ProceedingSetValue(a) ==
    /\ lastOp'.op = "SetValue" /\ lastOp'.node = a
    /\ ~lastOp'.raises
    /\ ~(last_updated[a] # NoTime /\ lastOp'.measured # NoTime
            /\ last_updated[a] > lastOp'.measured)

C16_ValueChanged ==
    [][\A a \in Attrs :
          ProceedingSetValue(a) =>
              LET cv == Converted(a, lastOp'.value)
                  u == lastOp'.unit
              IN /\ ("VALUE_CHANGED" \in FlagsRaisedOn(log', a))
                        <=> (cv # value[a] \/ (u # NoneUnit /\ u # unit[a]))
                 /\ cv # value[a] =>
                        /\ value'[a] = cv
                        /\ last_changed'[a] = (IF lastOp'.measured # NoTime
                                               THEN lastOp'.measured ELSE now')
                        /\ last_changed_local'[a] = now'
                        /\ enabled'[a] = (cv # NoneVal)
                 /\ cv = value[a] =>
                        /\ value'[a] = value[a]
                        /\ last_changed'[a] = last_changed[a]
                        /\ last_changed_local'[a] = last_changed_local[a]
                        /\ enabled'[a] = enabled[a]
      ]_vars

\* the string that spells the stored range has been handed in with a new unit:
\* VALUE_CHANGED was raised while the value was not touched
C16_Witness ==
    /\ lastOp.op = "SetValue" /\ lastOp.node = "range" /\ ~lastOp.raises
    /\ lastOp.value = Str(100) /\ value["range"] = 100 /\ lastOp.unit = "MI"
    /\ unit["range"] = "MI"
    /\ \E i \in 1..Len(log) : log[i].element = "range" /\ "VALUE_CHANGED" \in log[i].flags
    /\ last_changed["range"] # NoTime /\ last_changed_local["range"] < now

\* ---------------------------------------------------------------------------
\* the attribute is as it was before the step
AttributeUnchanged(a) ==
    /\ value'[a] = value[a] /\ unit'[a] = unit[a] /\ enabled'[a] = enabled[a]
    /\ last_changed'[a] = last_changed[a]
    /\ last_changed_local'[a] = last_changed_local[a]
    /\ last_updated'[a] = last_updated[a]
    /\ last_updated_local'[a] = last_updated_local[a]
    /\ flags_to_notify_on_transaction_end'[a] = flags_to_notify_on_transaction_end[a]
    /\ delayed_flags'[a] = delayed_flags[a]

PublicAssignment(a) == lastOp'.op \in {"AssignValue", "set_value"} /\ lastOp'.node = a

\* C17: assigning value, directly or through set_value(value, unit), on an
\* attribute that is not changeable raises, leaves value, unit, timestamps, enabled
\* flag and pending notification masks as they were, and invokes no observer; for
\* the generic attribute and for the bounded subtype alike.
C17_NotChangeableRaises ==
    [][\A a \in Attrs :
          PublicAssignment(a) /\ ~is_changeable[a] =>
              /\ lastOp'.raises
              /\ AttributeUnchanged(a)
              /\ enabled' = enabled
              /\ log' = <<>>
      ]_vars

\* an assignment to the range, not changeable and with an early hook registered,
\* has raised after the hook was run
C17_Witness ==
    /\ lastOp.op \in {"AssignValue", "set_value"} /\ lastOp.node = "range"
    /\ ~is_changeable["range"] /\ lastOp.raises /\ lastOp.error = "TypeError"
    /\ lastOp.value = 100
    /\ Len(hook_log) = 1 /\ hook_log[1].hook = "keep"
    /\ value["range"] = NoneVal

\* ---------------------------------------------------------------------------
WithinBounds(a, v) ==
    /\ minimum[a] # NoBound => minimum[a][1] <= v
    /\ maximum[a] # NoBound => v <= maximum[a][1]

\* C18: for a changeable bounded attribute that declares a minimum and/or a
\* maximum, a public value assignment either raises and leaves the attribute
\* unchanged, or commits a value v with minimum <= v <= maximum, whatever early or
\* late hooks are registered.  (None, which has no order, is let through.)
C18_CommittedWithinBounds ==
    [][\A a \in Attrs :
          /\ lastOp'.op = "AssignValue" /\ lastOp'.node = a
          /\ Bounded(a) /\ is_changeable[a]
          /\ (minimum[a] # NoBound \/ maximum[a] # NoBound)
          => \/ lastOp'.raises /\ AttributeUnchanged(a)
             \/ ~lastOp'.raises /\ (value'[a] = NoneVal \/ WithinBounds(a, value'[a]))
      ]_vars

\* ---------------------------------------------------------------------------
IsEarly(e) == e.early
IsLate(e) == ~e.early
EarlyHooks(a) == SelectSeq(on_set_hooks[a], IsEarly)
LateHooks(a) == SelectSeq(on_set_hooks[a], IsLate)

\* what the hook called at position i of the hook log returned
Returned(hl, i) == HookBody(hl[i].hook, hl[i].arg)

\* the hook log hl of an assignment of v to a: the early hooks in registration order,
\* the first on v as it was handed in, then the late hooks in registration order, the
\* first on the converted outcome of the early hooks, each hook on what the hook
\* before it returned, and no observer called before a hook
HooksAsStated(a, v, hl) ==
    /\ Len(hl) = Len(EarlyHooks(a)) + Len(LateHooks(a))
    /\ \A i \in 1..Len(hl) :
          /\ hl[i].notified = 0
          /\ hl[i].hook = (EarlyHooks(a) \o LateHooks(a))[i].hook
          /\ hl[i].early = (i <= Len(EarlyHooks(a)))
          /\ hl[i].arg = IF i = 1 /\ Len(EarlyHooks(a)) > 0 THEN v
                         ELSE IF i = 1 THEN Converted(a, v)
                         ELSE IF i = Len(EarlyHooks(a)) + 1 THEN Converted(a, Returned(hl, i - 1))
                         ELSE Returned(hl, i - 1)

\* the value handed to _set_value after the hooks of the log hl
HandedToSetValue(a, v, hl) ==
    IF Len(hl) = 0 THEN Converted(a, v)
    ELSE IF Len(LateHooks(a)) = 0 THEN Converted(a, Returned(hl, Len(hl)))
    ELSE Returned(hl, Len(hl))

\* C19: a public value assignment on a changeable attribute runs every registered
\* early hook once, in registration order, on the input before type coercion, then
\* coerces the type, then runs every registered late hook once, in registration
\* order, and only then commits through _set_value; no observer is notified before
\* the last hook has returned.  For the generic attribute and the bounded subtypes.
C19_HooksThenCommit ==
    [][\A a \in Attrs :
          /\ lastOp'.op = "AssignValue" /\ lastOp'.node = a
          /\ is_changeable[a] /\ ~lastOp'.raises
          => /\ HooksAsStated(a, lastOp'.value, hook_log')
             /\ value'[a] = Converted(a, HandedToSetValue(a, lastOp'.value, hook_log'))
      ]_vars

\* ---------------------------------------------------------------------------
\* an address of ids separated by single separators, none of them ".."
CleanRelative(p) ==
    /\ Len(p) % 2 = 1
    /\ \A i \in 1..Len(p) : IF i % 2 = 1 THEN p[i] \notin {"/", ".."} ELSE p[i] = "/"

\* the node reached from n by matching the components of p from position i on, each
\* against the ids of the direct children of the node reached so far
RECURSIVE Walk(_, _, _)
Walk(n, p, i) ==
    IF i > Len(p) THEN n
    ELSE IF \E k \in 1..Len(Children(n)) : Children(n)[k] = p[i]
    THEN Walk(p[i], p, i + 2)
    ELSE FalseSentinel

\* C21: get_by_path(p) on an Object returns the Object for '', its parent for '..'
\* (False on the root), what resolving the remainder from the root returns when p starts
\* with '/', and otherwise the node reached by matching each component against the ids
\* of the direct children of the node reached so far, False if a component has no
\* matching child there.
C21_GetByPath ==
    lastOp.op = "get_by_path" =>
        /\ lastOp.path = <<>> => lastOp.result = lastOp.node
        /\ lastOp.path = <<"..">> =>
               lastOp.result = (IF Parent(lastOp.node) = NoNode THEN FalseSentinel
                                ELSE Parent(lastOp.node))
        /\ (lastOp.path # <<>> /\ Head(lastOp.path) = "/") =>
               lastOp.result = GetByPath(GetRoot(lastOp.node), Tail(lastOp.path))
        /\ CleanRelative(lastOp.path) => lastOp.result = Walk(lastOp.node, lastOp.path, 1)

\* ---------------------------------------------------------------------------
\* the entry of an attribute: val, with upd and uni left out when absent
EntryAsStated(a, e) ==
    /\ DOMAIN e = {"val"} \cup (IF last_updated[a] # NoTime THEN {"upd"} ELSE {})
                          \cup (IF unit[a] # NoneUnit THEN {"uni"} ELSE {})
    /\ e.val = value[a]
    /\ last_updated[a] # NoTime => e.upd = IsoFormat(last_updated[a])
    /\ unit[a] # NoneUnit => e.uni = UnitValue(unit[a])

\* d has a key for a child of n exactly if the child is enabled and, for an attribute,
\* not left out by the filter f; recursively for the child objects
RECURSIVE DictAsStated(_, _, _)
DictAsStated(n, f, d) ==
    /\ DOMAIN d = {c \in ChildSet(n) :
                     enabled[c] /\ (c \in Attrs => (f = NoFilter \/ ~FilterFunction(f, value[c])))}
    /\ \A c \in DOMAIN d :
          IF c \in Attrs THEN EntryAsStated(c, d[c]) ELSE DictAsStated(c, f, d[c])

RECURSIVE Occurrences(_, _)
Occurrences(n, list) ==
    IF list = <<>> THEN 0
    ELSE (IF Head(list) = n THEN 1 ELSE 0) + Occurrences(n, Tail(list))

\* C23: after any sequence of constructions, parent reassignments and origin-clone
\* constructions, p is the parent of n if and only if n is in the children of p, and a
\* node that has a parent is in the children of that parent exactly once.
C23_ExclusiveOwnership ==
    \A n \in tree.made, p \in TreeObjects \cap tree.made :
        /\ (tree.parent[n] = p) <=> InList(n, ChildrenOf(tree, p))
        /\ Occurrences(n, ChildrenOf(tree, p)) <= 1

\* C24: constructing an Object or an Attribute whose id contains the separator, or an
\* Attribute without a parent, raises and adds no node to any children list.
C24_ConstructionRaises ==
    [][(/\ lastOp'.op \in {"NewObject", "NewAttribute"}
        /\ \/ HasSlash(lastOp'.path)
           \/ lastOp'.op = "NewAttribute" /\ lastOp'.node \notin tree'.made)
       => (lastOp'.raises /\ tree'.lists = tree.lists /\ tree'.made = tree.made)
      ]_vars

\* ---------------------------------------------------------------------------
AssignedCommand(a) == lastOp'.op = "AssignCommand" /\ lastOp'.node = a

\* the strings '<verb> --target-temperature <n> --target-temperature-unit <u>' with a
\* verb of the enum, a number n and u one of C, F, K
StatedLine(v) ==
    /\ IsLine(v) /\ Len(Words(v)) = 5
    /\ Words(v)[1] \in {"start", "stop"}
    /\ Words(v)[2] = "--target-temperature" /\ Words(v)[3] \in {"22", "30"}
    /\ Words(v)[4] = "--target-temperature-unit" /\ Words(v)[5] \in {"C", "F", "K"}

StatedVerb(word) == IF word = "start" THEN MemberField(START) ELSE MemberField(STOP)
StatedNumber(word) == IF word = "22" THEN 22 ELSE 30
StatedUnit(word) == CASE word = "C" -> 1 [] word = "F" -> 2 [] word = "K" -> 3

StatedDict(v) ==
    Dict(StatedVerb(Words(v)[1]), StatedNumber(Words(v)[3]), StatedUnit(Words(v)[5]))

\* C25: assigning to the value of the climatization command a string
\* '<verb> --target-temperature <n> --target-temperature-unit <u>', verb start or
\* stop and u one of C, F, K, commits the dict of the Command member of the verb,
\* the number n and the Temperature member of u.
C25_ClimatizationLine ==
    [][AssignedCommand("c") /\ StatedLine(lastOp'.value) =>
          /\ ~lastOp'.raises
          /\ value'["c"] = StatedDict(lastOp'.value)
      ]_vars

\* the verb is no member of the enum
BadVerb(words) == words[1] \notin {"start", "stop"}

\* a flag the command does not declare, a flag without its argument, or a
\* temperature that is no number
BadFlags(a, words) ==
    \E i \in 2..Len(words) :
        /\ IsOption(words[i])
        /\ \/ ~KnownOption(a, words[i])
           \/ i = Len(words)
           \/ words[i] = "--target-temperature" /\ words[i + 1] \notin {"22", "30"}

\* C26: assigning to a command a string whose verb is no member of the enum of the
\* command, or whose flags are malformed, raises SetterError, leaves value,
\* timestamps and enabled flag of the command as they were, and notifies no observer.
C26_BadLineRaises ==
    [][\A a \in CommandAttrs :
          /\ AssignedCommand(a) /\ IsLine(lastOp'.value)
          /\ BadVerb(Words(lastOp'.value)) \/ BadFlags(a, Words(lastOp'.value))
          => /\ lastOp'.raises /\ lastOp'.error = "SetterError"
             /\ AttributeUnchanged(a)
             /\ enabled' = enabled
             /\ log' = <<>>
      ]_vars

\* 'bogus' was assigned to the climatization command that holds the dict of START:
\* SetterError, the dict is still there
C26_Witness ==
    /\ lastOp.op = "AssignCommand" /\ lastOp.node = "c" /\ lastOp.value = Line(3)
    /\ lastOp.raises /\ lastOp.error = "SetterError"
    /\ value["c"] = Dict(MemberField(START), 0, 0)
    /\ log = <<>>

\* the value is None or a dict whose command is a member of the enum
CommandValueAsStated(v) ==
    v = NoneVal \/ (IsDict(v) /\ CommandField(v) \in {MemberField(START), MemberField(STOP)})

\* a dict whose command field is there and is neither a member nor the value of one
InvalidDict(v) == IsDict(v) /\ CommandField(v) \in {5, 6}

\* C27: after a successful assignment to a command, of an enum member, a string or
\* a dict, the committed value is None or a dict whose command field is a member of
\* the Command enum; a dict whose command field is no valid member is rejected with
\* an error and is not committed.
C27_CommandIsMember ==
    [][\A a \in CommandAttrs :
          AssignedCommand(a) =>
              /\ ~lastOp'.raises => CommandValueAsStated(value'[a])
              /\ InvalidDict(lastOp'.value) => lastOp'.raises /\ AttributeUnchanged(a)
      ]_vars

\* ---------------------------------------------------------------------------
\* |p - x| <= 1e-6 for a fraction p and a whole number x
WithinTolerance(p, x) == Abs(p[1] - x * p[2]) * 1000000 <= p[2]

\* C28: for two units A, B of one quantity (Length KM/MI/M/FT, Temperature C/F/K,
\* Speed KMH/MPH, Power W/KW, Energy WH/KWH) and a sample x, zero and negatives
\* included, convert(convert(x, A, B), B, A) is x within 1e-6.
C28_RoundTrip ==
    lastOp.op = "convert back" => WithinTolerance(lastOp.result, lastOp.value)

\* ---------------------------------------------------------------------------
\* the value v of unit from in unit to, through the unit in between where the two
\* are not converted in one step (feet and kilometres through metres, metres and
\* miles through kilometres)
InUnit(v, from, to) ==
    CASE {from, to} = {"KM", "FT"} -> RangeConvert(RangeConvert(v, from, "M"), "M", to)
      [] {from, to} = {"M", "MI"} -> RangeConvert(RangeConvert(v, from, "KM"), "KM", to)
      [] OTHER -> RangeConvert(v, from, to)

LocaleUnit(locale) == IF StartsWithMilesLocale(locale) THEN "MI" ELSE "KM"

\* C29: in_locale of a range returns miles with unit MI for a locale that starts
\* with en_US, en_GB, en_LR or en_MM and kilometres with unit KM for every other
\* locale that is not None, whatever the unit (KM, MI, M, FT) of the stored value,
\* the number being the stored value converted from the stored unit; for the locale
\* None it returns the stored value and unit.
C29_InLocale ==
    lastOp.op = "in_locale" =>
        /\ lastOp.result.error = NoError
        /\ lastOp.path = NoLocale =>
               lastOp.result.value = Whole(value["range"]) /\ lastOp.result.unit = unit["range"]
        /\ lastOp.path # NoLocale =>
               /\ lastOp.result.unit = LocaleUnit(lastOp.path)
               /\ lastOp.result.value =
                      InUnit(Whole(value["range"]), unit["range"], LocaleUnit(lastOp.path))

\* ---------------------------------------------------------------------------
\* the calls of the log are the calls of the entries es, in their order, with the
\* element n
CallsAre(lg, es, n) ==
    /\ Len(lg) = Len(es)
    /\ \A i \in 1..Len(es) : RegistrationOf(lg[i]) = es[i] /\ lg[i].element = n

\* C30: when a callback adds or removes observers on the dispatching node or on an
\* ancestor during notify or transaction_end, the callbacks invoked in that dispatch
\* and their order are the ones computed at the start of the dispatch; an observer
\* added meanwhile is not called for the current event.
C30_DispatchFromSnapshot ==
    [][\A n \in Nodes :
          /\ (lastOp'.op = "Notify" /\ lastOp'.node = n /\ ~delay_notifications[n])
                => CallsAre(log', GetObserverEntries(World, n, lastOp'.flags, FALSE), n)
          /\ (lastOp'.op = "TransactionEnd" /\ lastOp'.node = n /\ Children(n) = <<>>
                 /\ flags_to_notify_on_transaction_end[n] # NONE)
                => CallsAre(log',
                            GetObserverEntries(World, n, flags_to_notify_on_transaction_end[n],
                                               TRUE), n)
      ]_vars

\* a was notified: add_on_element and cb1 were called, cb3 is registered on a for
\* immediate calls and was not called
C30_Witness ==
    /\ lastOp.op = "Notify" /\ lastOp.node = "a"
    /\ Len(log) = 2 /\ log[1].cb = "add_on_element" /\ log[2].cb = "cb1"
    /\ Entry("cb3", ALL, USER_LOW, FALSE) \in observers["a"]

\* ---------------------------------------------------------------------------
\* C31: an Object that was enabled by a direct enabled = true assignment stays
\* enabled when all of its children become disabled; here for the assignment that
\* disables a node below the Object right after the Object was assigned true.
C31_DirectlyEnabledStays ==
    [][\A o \in Objects :
          /\ lastOp.op = "SetEnabled" /\ lastOp.node = o /\ lastOp.en
          /\ lastOp'.op = "SetEnabled" /\ lastOp'.node \in DescendantsOf(o) /\ ~lastOp'.en
          => enabled'[o]
      ]_vars

\* ---------------------------------------------------------------------------
\* C32: a _set_value call whose measured time is strictly later than every measured
\* time handed to the attribute before is not discarded by the staleness guard,
\* whatever calls preceded it, when no measured time is later than the wall clock.
C32_LaterMeasurementProceeds ==
    [][/\ lastOp'.op = "SetValue" /\ lastOp'.node = "a"
       /\ lastOp'.measured # NoTime /\ lastOp'.measured > latest_measured["a"]
       => lastOp'.proceeded
      ]_vars

\* ---------------------------------------------------------------------------
\* C33: for a drive whose range and level are not None, with level > 0, after every
\* round in which a connector has written a new measurement of range or level, with
\* increasing measured times, and transaction_end has run, the value of
\* range_estimated_full is range.value / level.value * 100.
C33_EstimateAfterEveryRound ==
    (/\ lastOp.op = "TransactionEnd"
     /\ value["range"] # NoneVal /\ value["level"] # NoneVal /\ value["level"] > 0)
        => value["range_estimated_full"] * value["level"] = value["range"] * 100

\* ---------------------------------------------------------------------------
\* C34: while delay_notifications is true on an Object, a change to an attribute or
\* a child Object inside its subtree invokes no immediate observer, wherever the
\* observer is registered.
C34_DelayCoversSubtree ==
    [][\A o \in Objects :
          /\ delay_notifications[o] /\ delay_notifications'[o]
          /\ lastOp'.op \in {"SetValue", "SetEnabled"}
          /\ lastOp'.node \in DescendantsOf(o)
          => \A i \in 1..Len(log') : log'[i].ote
      ]_vars

\* ---------------------------------------------------------------------------
\* C35: in every tree built by the constructors of the library, no two children of
\* the same Object have the same id.
C35_SiblingIdsDistinct ==
    \A p \in BuiltObjects \cap tree.made :
        \A i, j \in 1..Len(ChildrenOf(tree, p)) :
            i # j => tree.id[ChildrenOf(tree, p)[i]] # tree.id[ChildrenOf(tree, p)[j]]

\* ---------------------------------------------------------------------------
\* the absolute path as stated: the bare id for the root, else the path of the parent,
\* a separator and the id of the node
RECURSIVE StatedAbsolutePath(_)
StatedAbsolutePath(n) ==
    IF Parent(n) = NoNode THEN <<n>> ELSE StatedAbsolutePath(Parent(n)) \o <<"/">> \o <<n>>

\* C36: for every node n of a tree whose sibling ids are distinct, get_by_path on the
\* root with the absolute path of n returns n; the absolute path is the path of the
\* parent, '/' and the id of n, and the bare id for the root.
C36_AbsolutePathRoundTrip ==
    lastOp.op = "get_by_absolute_path" =>
        /\ lastOp.path = StatedAbsolutePath(lastOp.node)
        /\ lastOp.result = lastOp.node

\* ---------------------------------------------------------------------------
\* C37: assigning enabled = False to an attribute that is disabled already, or to an
\* Object that is disabled already and has no enabled child, changes the enabled flag
\* of no node and raises no notification.
C37_DisableAgainIsNoOp ==
    [][\A n \in GarageNodes :
          /\ lastOp'.op = "SetEnabled" /\ lastOp'.node = n /\ ~lastOp'.en
          /\ ~enabled[n]
          /\ \A c \in ChildSet(n) : ~enabled[c]
          => /\ enabled' = enabled
             /\ log' = <<>>
             /\ flags_to_notify_on_transaction_end' = flags_to_notify_on_transaction_end
      ]_vars

\* ---------------------------------------------------------------------------
\* C38: fetch_all calls fetch_all on every connector, also when earlier connectors
\* raise RetrievalError; then it raises a RetrievalError if at least one connector
\* failed and returns normally if none did.
C38_FetchAllCallsEveryConnector ==
    lastOp.op = "fetch_all" =>
        /\ lastOp.result = Len(lastOp.path)
        /\ IF \E i \in 1..Len(lastOp.path) : lastOp.path[i] \in RetrievalErrors
           THEN lastOp.error \in RetrievalErrors
           ELSE ~lastOp.raises

\* ---------------------------------------------------------------------------
\* C39: after Location.clear() every attribute of the Location has the value None and
\* is disabled; so the Location is disabled and is no key of the as_dict of its parent.
C39_ClearedLocation ==
    lastOp.op = "clear" =>
        /\ \A a \in LocationAttrs : value[a] = NoneVal /\ ~enabled[a]
        /\ ~enabled["position_location"]
        /\ "position_location" \notin DOMAIN AsDict(World, "position", NoFilter)

\* ---------------------------------------------------------------------------
\* the calls of the hook h among the hook calls hl of one write
CallsOfHook(hl, h) == Cardinality({i \in 1..Len(hl) : hl[i].hook = h})

\* C40: however often the same hook was registered with _add_on_set_hook, it runs
\* exactly once per write; after one _remove_on_set_hook it runs no more and
\* _has_on_set_hook returns False.
C40_HookOnceAndRemoved ==
    [][\A h \in HookNames :
          /\ (/\ lastOp'.op = "AssignValue" /\ lastOp'.node = "c" /\ ~lastOp'.raises
              /\ HasOnSetHook(World, "c", h))
                => CallsOfHook(hook_log', h) = 1
          /\ (lastOp.op = "RemoveOnSetHook" /\ lastOp.node = "c" /\ lastOp.cb = h)
                => /\ (lastOp'.op = "HasOnSetHook" /\ lastOp'.cb = h) => lastOp'.result = FALSE
                   /\ lastOp'.op = "AssignValue" => CallsOfHook(hook_log', h) = 0
      ]_vars

===========================================================================
